---- MODULE Spec2Model ----
(***************************************************************************)
(* Lexicographic shortest paths with dynamic updates.                      *)
(*                                                                         *)
(* DynamicDirectedGraph (the graph store) and LexiSSSP (the query engine)  *)
(* of src/src/LexiPathEngine.cpp, driven the way runLexiEngineFromString   *)
(* of src/src/AlgorithmPlayground.cpp drives them: a store is created,     *)
(* edges are loaded into it directly, an engine is constructed on it, and  *)
(* then ADD / REM / ASK commands (and touch) are issued one at a time.     *)
(*                                                                         *)
(* Vectors are sequences; the C++ index x is the TLA+ index x + 1.  Edge   *)
(* ids are the C++ ids (0-based), so the record of id i is edges_[i + 1].  *)
(***************************************************************************)
EXTENDS Integers, Sequences, FiniteSets, TLC

(***************************************************************************)
(* Bounds of the model.                                                    *)
(***************************************************************************)
\* edges_ never holds more than MaxEdges records (loads and ADDs stop there)
MaxEdges == 3

(***************************************************************************)
(* Program constants.                                                      *)
(***************************************************************************)
\* the fixed source S of the engine (the S of the test inputs)
S_ == 1
\* n_initial, the default initial capacity of the store
NInitial == 0
\* LexiSSSP::INF is 1LL << 62.  TLC's integers are 32 bits wide, so the
\* sentinel is 2^30 here: like the original it is larger than every path sum
\* the model can build (at most MaxEdges edges of weight at most 3).
INF == 1073741824
\* std::numeric_limits<int>::max()
IntMax == 2147483647

\* The (u, v, w) triples the commands draw from.  Source 1; <<1,3,3>> against
\* <<1,2,2>>,<<2,3,2>> is a heavier path with a smaller bottleneck;
\* <<1,3,3>> against <<1,2,1>>,<<2,3,2>> is a tie on the sum with different
\* bottlenecks; <<2,2,0>> is a zero-weight cycle.
EdgeInputs == { <<1, 2, 1>>, <<1, 2, 2>>, <<2, 3, 2>>, <<1, 3, 3>>, <<2, 2, 0>> }

\* ASK targets: the nodes the triples name.  A target can still lie beyond the
\* capacity of the store and of the label vectors, which start at NInitial and
\* grow only as edges and queries name nodes.
Targets == {k[1] : k \in EdgeInputs} \cup {k[2] : k \in EdgeInputs}

VARIABLES
    phase,      \* "load": the store exists, the engine does not; "run": both
    edges_,     \* DynamicDirectedGraph::edges_
    adj_,       \* DynamicDirectedGraph::adj_
    bucket_,    \* DynamicDirectedGraph::bucket_
    dist_,      \* LexiSSSP::dist_
    bestMax_,   \* LexiSSSP::bestMax_
    dirty_,     \* LexiSSSP::dirty_
    lastOp      \* the call that produced this state, with what it returned

vars == <<phase, edges_, adj_, bucket_, dist_, bestMax_, dirty_, lastOp>>

\* InMemoryDB, the transactional key-value map of the repository.  It shares
\* nothing with the graph classes: the calls above leave it alone, and its
\* own calls (under DbSpec, below) leave the graph and the engine alone.
VARIABLES
    db_,        \* InMemoryDB::db_
    valCount_,  \* InMemoryDB::valCount_
    txnStack_,  \* InMemoryDB::txnStack_
    atBegin,    \* per open transaction, db_ as it was when begin was called
    dbLast      \* the call on the database that produced this state

dbvars == <<db_, valCount_, txnStack_, atBegin, dbLast>>

\* The position of a recompute that is taken one statement at a time (under
\* LoopSpec, below); every call modelled as a whole leaves these alone.
VARIABLES
    pc,         \* "idle": no recompute is running; "loop": at the test of the
                \* while loop; "scan": inside the for loop over outEdges(cur.v)
    loopPq,     \* the local priority queue pq, as the sequence of queued items
    loopCur,    \* the local PQItem cur
    eidx,       \* the position of the for loop in outEdges(cur.v), from 1
    askT,       \* the argument of the ask that runs the recompute
    popped      \* the items dequeued so far in this recompute, each with
                \* whether it was dropped as stale

loopvars == <<pc, loopPq, loopCur, eidx, askT, popped>>

\* no recompute has run yet
LoopInit ==
    /\ pc = "idle"
    /\ loopPq = <<>>
    /\ loopCur = [dist |-> 0, bottleneck |-> 0, v |-> S_]
    /\ eidx = 0
    /\ askT = 0
    /\ popped = <<>>

\* A second LexiSSSP object bound to the same store (under TwinSpec, below);
\* the calls on the first engine, on the store and on the database leave its
\* members alone.
VARIABLES
    dist2_,     \* LexiSSSP::dist_ of the second engine
    bestMax2_,  \* LexiSSSP::bestMax_ of the second engine
    dirty2_     \* LexiSSSP::dirty_ of the second engine

twinvars == <<dist2_, bestMax2_, dirty2_>>

\* the second engine is not constructed yet
TwinInit ==
    /\ dist2_ = <<>>
    /\ bestMax2_ = <<>>
    /\ dirty2_ = FALSE

\* a default-constructed InMemoryDB
DbInit ==
    /\ db_ = <<>>
    /\ valCount_ = <<>>
    /\ txnStack_ = <<>>
    /\ atBegin = <<>>
    /\ dbLast = [op |-> "new", status |-> "none", undone |-> 0, closed |-> 0]

Max(a, b) == IF a > b THEN a ELSE b

\* a vector of n copies of x
Fill(n, x) == [i \in 1 .. n |-> x]

\* std::vector::resize(need, x) for need >= size
Resize(vec, need, x) == vec \o Fill(need - Len(vec), x)

(***************************************************************************)
(* DynamicDirectedGraph                                                    *)
(***************************************************************************)

\* a faulty variant of ensureNode that resizes to x + 1 whatever the size was
ensureNodeExact(adj, x) ==
    IF x < 0 THEN adj
    ELSE IF Len(adj) < x + 1 THEN Resize(adj, x + 1, <<>>)
    ELSE SubSeq(adj, 1, x + 1)

\* DynamicDirectedGraph::ensureNode, on adj_
ensureNode(adj, x) ==
    IF x < 0 THEN adj
    ELSE IF Len(adj) < x + 1 THEN Resize(adj, x + 1, <<>>)
    ELSE adj

\* bucket_[Key{u, v, w}].push_back(id): operator[] creates a missing entry
BucketPush(bucket, key, id) ==
    IF key \in DOMAIN bucket
    THEN [bucket EXCEPT ![key] = Append(@, id)]
    ELSE [k \in DOMAIN bucket \cup {key} |->
            IF k = key THEN <<id>> ELSE bucket[k]]

\* a faulty variant of addEdge that numbers the new edge by the count of alive
\* records, so that the id of a removed edge is issued again
addEdgeReusesIds(g, u, v, w) ==
    LET adj1 == ensureNode(ensureNode(g.adj, u), v)
        id   == Cardinality({i \in 1 .. Len(g.edges) : g.edges[i].alive})
    IN  [ edges  |-> Append(g.edges, [u |-> u, v |-> v, w |-> w, alive |-> TRUE]),
          adj    |-> [adj1 EXCEPT ![u + 1] = Append(@, id)],
          bucket |-> BucketPush(g.bucket, <<u, v, w>>, id),
          id     |-> id ]

\* a faulty variant of addEdge that files the id under the target node
addEdgeAdjTarget(g, u, v, w) ==
    LET adj1 == ensureNode(ensureNode(g.adj, u), v)
        id   == Len(g.edges)
    IN  [ edges  |-> Append(g.edges, [u |-> u, v |-> v, w |-> w, alive |-> TRUE]),
          adj    |-> [adj1 EXCEPT ![v + 1] = Append(@, id)],
          bucket |-> BucketPush(g.bucket, <<u, v, w>>, id),
          id     |-> id ]

\* a faulty variant of addEdge without ensureNode(v)
addEdgeNoEnsureTarget(g, u, v, w) ==
    LET adj1 == ensureNode(g.adj, u)
        id   == Len(g.edges)
    IN  [ edges  |-> Append(g.edges, [u |-> u, v |-> v, w |-> w, alive |-> TRUE]),
          adj    |-> [adj1 EXCEPT ![u + 1] = Append(@, id)],
          bucket |-> BucketPush(g.bucket, <<u, v, w>>, id),
          id     |-> id ]

\* a faulty variant of addEdge that sets the flag of a removed record of the
\* same triple again instead of appending a record
addEdgeRevives(g, u, v, w) ==
    LET adj1 == ensureNode(ensureNode(g.adj, u), v)
        dead == {i \in 1 .. Len(g.edges) :
                   ~g.edges[i].alive /\ <<g.edges[i].u, g.edges[i].v, g.edges[i].w>> = <<u, v, w>>}
    IN  IF dead # {}
        THEN LET i == CHOOSE i \in dead : \A j \in dead : i >= j IN
             [ edges  |-> [g.edges EXCEPT ![i].alive = TRUE],
               adj    |-> adj1,
               bucket |-> BucketPush(g.bucket, <<u, v, w>>, i - 1),
               id     |-> i - 1 ]
        ELSE [ edges  |-> Append(g.edges, [u |-> u, v |-> v, w |-> w, alive |-> TRUE]),
               adj    |-> [adj1 EXCEPT ![u + 1] = Append(@, Len(g.edges))],
               bucket |-> BucketPush(g.bucket, <<u, v, w>>, Len(g.edges)),
               id     |-> Len(g.edges) ]

\* DynamicDirectedGraph::addEdge on the store g = [edges, adj, bucket];
\* the result carries the returned id
addEdge(g, u, v, w) ==
    LET adj1 == ensureNode(ensureNode(g.adj, u), v)
        id   == Len(g.edges)
    IN  [ edges  |-> Append(g.edges, [u |-> u, v |-> v, w |-> w, alive |-> TRUE]),
          adj    |-> [adj1 EXCEPT ![u + 1] = Append(@, id)],
          bucket |-> BucketPush(g.bucket, <<u, v, w>>, id),
          id     |-> id ]

\* a faulty variant of removeEdge that takes the oldest id of the bucket
removeEdgeFifo(g, u, v, w) ==
    LET key == <<u, v, w>> IN
    IF key \notin DOMAIN g.bucket \/ g.bucket[key] = <<>>
    THEN [edges |-> g.edges, adj |-> g.adj, bucket |-> g.bucket, ret |-> FALSE]
    ELSE LET id == Head(g.bucket[key]) IN
         [ edges  |-> [g.edges EXCEPT ![id + 1].alive = FALSE],
           adj    |-> g.adj,
           bucket |-> [g.bucket EXCEPT ![key] = Tail(@)],
           ret    |-> TRUE ]

\* a faulty variant of removeEdge that only tests whether the bucket exists
removeEdgeNoEmptyTest(g, u, v, w) ==
    LET key == <<u, v, w>> IN
    IF key \notin DOMAIN g.bucket
    THEN [edges |-> g.edges, adj |-> g.adj, bucket |-> g.bucket, ret |-> FALSE]
    ELSE IF g.bucket[key] = <<>>
    THEN [edges |-> g.edges, adj |-> g.adj, bucket |-> g.bucket, ret |-> TRUE]
    ELSE LET id == g.bucket[key][Len(g.bucket[key])] IN
         [ edges  |-> [g.edges EXCEPT ![id + 1].alive = FALSE],
           adj    |-> g.adj,
           bucket |-> [g.bucket EXCEPT ![key] = SubSeq(@, 1, Len(@) - 1)],
           ret    |-> TRUE ]

\* a faulty variant of removeEdge that also erases the id from the adjacency
\* sequence of the source (a hard delete)
removeEdgeHard(g, u, v, w) ==
    LET key == <<u, v, w>> IN
    IF key \notin DOMAIN g.bucket \/ g.bucket[key] = <<>>
    THEN [edges |-> g.edges, adj |-> g.adj, bucket |-> g.bucket, ret |-> FALSE]
    ELSE LET id == g.bucket[key][Len(g.bucket[key])] IN
         [ edges  |-> [g.edges EXCEPT ![id + 1].alive = FALSE],
           adj    |-> [g.adj EXCEPT ![u + 1] = SelectSeq(@, LAMBDA e : e # id)],
           bucket |-> [g.bucket EXCEPT ![key] = SubSeq(@, 1, Len(@) - 1)],
           ret    |-> TRUE ]

\* a faulty variant of removeEdge that leaves the id in the bucket
removeEdgeKeepsId(g, u, v, w) ==
    LET key == <<u, v, w>> IN
    IF key \notin DOMAIN g.bucket \/ g.bucket[key] = <<>>
    THEN [edges |-> g.edges, adj |-> g.adj, bucket |-> g.bucket, ret |-> FALSE]
    ELSE LET id == g.bucket[key][Len(g.bucket[key])] IN
         [ edges  |-> [g.edges EXCEPT ![id + 1].alive = FALSE],
           adj    |-> g.adj,
           bucket |-> g.bucket,
           ret    |-> TRUE ]

\* DynamicDirectedGraph::removeEdge; the result carries the returned bool
removeEdge(g, u, v, w) ==
    LET key == <<u, v, w>> IN
    IF key \notin DOMAIN g.bucket \/ g.bucket[key] = <<>>
    THEN [edges |-> g.edges, adj |-> g.adj, bucket |-> g.bucket, ret |-> FALSE]
    ELSE LET id == g.bucket[key][Len(g.bucket[key])] IN
         [ edges  |-> [g.edges EXCEPT ![id + 1].alive = FALSE],
           adj    |-> g.adj,
           bucket |-> [g.bucket EXCEPT ![key] = SubSeq(@, 1, Len(@) - 1)],
           ret    |-> TRUE ]

\* a faulty variant of outEdges that clamps an id outside the range to the
\* nearest node instead of answering with the empty sequence
outEdgesClamped(adj, u) ==
    IF u < 0 THEN adj[1]
    ELSE IF u >= Len(adj) THEN adj[Len(adj)]
    ELSE adj[u + 1]

\* DynamicDirectedGraph::outEdges
outEdges(adj, u) ==
    IF u < 0 \/ u >= Len(adj) THEN <<>> ELSE adj[u + 1]

\* DynamicDirectedGraph::edgeById (ids issued by the store only)
edgeById(edges, id) == edges[id + 1]

\* DynamicDirectedGraph::nodeCapacity
nodeCapacity(adj) == Len(adj) - 1

\* DynamicDirectedGraph::edgeCount
edgeCount(edges) == Len(edges)

(***************************************************************************)
(* LexiSSSP                                                                *)
(***************************************************************************)

\* LexiSSSP::PQItem::operator< : a has lower priority than o
PQLess(a, o) ==
    IF a.dist # o.dist THEN a.dist > o.dist
    ELSE a.bottleneck > o.bottleneck

\* The index of pq.top() in the sequence of queued items: an item no other
\* item has priority over.  Which of several items of equal (dist, bottleneck)
\* the heap returns first is the library's choice; the first queued is taken.
TopIndex(pq) ==
    CHOOSE i \in 1 .. Len(pq) :
        /\ \A j \in 1 .. Len(pq) : ~PQLess(pq[i], pq[j])
        /\ \A j \in 1 .. (i - 1) : PQLess(pq[j], pq[i])

\* pq.pop() of the item at index i
PopAt(pq, i) == SubSeq(pq, 1, i - 1) \o SubSeq(pq, i + 1, Len(pq))

\* a faulty variant of the constructor that leaves dirty_ false
LexiSSSPClean(adj) ==
    [ dist    |-> Fill(nodeCapacity(adj) + 1, INF),
      bestMax |-> Fill(nodeCapacity(adj) + 1, IntMax),
      dirty   |-> FALSE ]

\* LexiSSSP::LexiSSSP(g, S): the label vectors and the dirty flag
LexiSSSP(adj) ==
    [ dist    |-> Fill(nodeCapacity(adj) + 1, INF),
      bestMax |-> Fill(nodeCapacity(adj) + 1, IntMax),
      dirty   |-> TRUE ]

\* a faulty variant of growToInclude that assigns the vectors instead of resizing
growToIncludeAssign(adj, dist, bestMax, x) ==
    IF x < 0 THEN [adj |-> adj, dist |-> dist, bestMax |-> bestMax]
    ELSE LET adj1 == ensureNode(adj, x) IN
         IF Len(dist) < x + 1
         THEN [ adj     |-> adj1,
                dist    |-> Fill(x + 1, INF),
                bestMax |-> Fill(x + 1, IntMax) ]
         ELSE [adj |-> adj1, dist |-> dist, bestMax |-> bestMax]

\* LexiSSSP::growToInclude
growToInclude(adj, dist, bestMax, x) ==
    IF x < 0 THEN [adj |-> adj, dist |-> dist, bestMax |-> bestMax]
    ELSE LET adj1 == ensureNode(adj, x) IN
         IF Len(dist) < x + 1
         THEN [ adj     |-> adj1,
                dist    |-> Resize(dist, x + 1, INF),
                bestMax |-> Resize(bestMax, x + 1, IntMax) ]
         ELSE [adj |-> adj1, dist |-> dist, bestMax |-> bestMax]

\* a faulty variant of Scanned that also relaxes removed edges
ScannedDead(e) == TRUE

\* recompute, line 128: an edge is relaxed only if it is alive
Scanned(e) == e.alive

\* a faulty variant of Accept that compares the sums only
AcceptSumOnly(nd, nb, dv, bv) == nd < dv

\* a faulty variant of Accept that lets a smaller bottleneck win whatever the sum
AcceptAnyBottleneck(nd, nb, dv, bv) == nd < dv \/ nb < bv

\* a faulty variant of Accept that prefers the larger bottleneck among equal sums
AcceptLargerBottleneck(nd, nb, dv, bv) == nd < dv \/ (nd = dv /\ nb > bv)

\* a faulty variant of Accept that also takes a candidate equal to the label
AcceptNotStrict(nd, nb, dv, bv) == nd < dv \/ (nd = dv /\ nb <= bv)

\* recompute, line 134: the candidate (nd, nb) replaces the label (dv, bv)
Accept(nd, nb, dv, bv) == nd < dv \/ (nd = dv /\ nb < bv)

\* recompute, lines 126-139: the for loop over outEdges(cur.v), from the i-th
\* id on; st = [dist, bestMax, pq]
RECURSIVE RelaxFrom(_, _, _, _, _)
RelaxFrom(edges, st, cur, eids, i) ==
    IF i > Len(eids) THEN st
    ELSE LET e == edgeById(edges, eids[i]) IN
         IF ~Scanned(e) THEN RelaxFrom(edges, st, cur, eids, i + 1)
         ELSE LET nd == cur.dist + e.w
                  nb == Max(cur.bottleneck, e.w)
              IN  IF Accept(nd, nb, st.dist[e.v + 1], st.bestMax[e.v + 1])
                  THEN RelaxFrom(edges,
                         [ dist    |-> [st.dist EXCEPT ![e.v + 1] = nd],
                           bestMax |-> [st.bestMax EXCEPT ![e.v + 1] = nb],
                           pq      |-> Append(st.pq,
                                         [dist |-> nd, bottleneck |-> nb, v |-> e.v]) ],
                         cur, eids, i + 1)
                  ELSE RelaxFrom(edges, st, cur, eids, i + 1)

\* recompute, lines 116-140: the while loop
RECURSIVE DrainQueue(_, _, _)
DrainQueue(edges, adj, st) ==
    IF st.pq = <<>> THEN st
    ELSE LET i    == TopIndex(st.pq)
             cur  == st.pq[i]
             rest == [st EXCEPT !.pq = PopAt(st.pq, i)]
         IN  IF cur.dist # st.dist[cur.v + 1] \/ cur.bottleneck # st.bestMax[cur.v + 1]
             THEN DrainQueue(edges, adj, rest)
             ELSE DrainQueue(edges, adj,
                             RelaxFrom(edges, rest, cur, outEdges(adj, cur.v), 1))

\* a faulty variant of Traverse that keeps the labels of the last recompute
TraverseKeepsLabels(edges, adj, dist, bestMax) ==
    LET g1  == growToInclude(adj, dist, bestMax, nodeCapacity(adj))
        g2  == growToInclude(g1.adj, g1.dist, g1.bestMax, S_)
        fin == DrainQueue(edges, g2.adj,
                 [ dist    |-> [g2.dist EXCEPT ![S_ + 1] = 0],
                   bestMax |-> [g2.bestMax EXCEPT ![S_ + 1] = 0],
                   pq      |-> << [dist |-> 0, bottleneck |-> 0, v |-> S_] >> ])
    IN  [adj |-> g2.adj, dist |-> fin.dist, bestMax |-> fin.bestMax]

\* recompute, lines 105-140: the labels of a full traversal from S_
Traverse(edges, adj, dist, bestMax) ==
    LET g1  == growToInclude(adj, dist, bestMax, nodeCapacity(adj))
        g2  == growToInclude(g1.adj, Fill(Len(g1.dist), INF),
                             Fill(Len(g1.bestMax), IntMax), S_)
        fin == DrainQueue(edges, g2.adj,
                 [ dist    |-> [g2.dist EXCEPT ![S_ + 1] = 0],
                   bestMax |-> [g2.bestMax EXCEPT ![S_ + 1] = 0],
                   pq      |-> << [dist |-> 0, bottleneck |-> 0, v |-> S_] >> ])
    IN  [adj |-> g2.adj, dist |-> fin.dist, bestMax |-> fin.bestMax]

\* a faulty variant of recompute that forgets dirty_ = false
recomputeStaysDirty(edges, adj, dist, bestMax) ==
    LET r == Traverse(edges, adj, dist, bestMax) IN
    [adj |-> r.adj, dist |-> r.dist, bestMax |-> r.bestMax, dirty |-> TRUE]

\* LexiSSSP::recompute
recompute(edges, adj, dist, bestMax) ==
    LET r == Traverse(edges, adj, dist, bestMax) IN
    [adj |-> r.adj, dist |-> r.dist, bestMax |-> r.bestMax, dirty |-> FALSE]

\* a faulty variant of ask that erases the ids of removed edges from the
\* adjacency sequences while it is at it
askCompacts(edges, adj, dist, bestMax, dirty, t) ==
    LET g == growToInclude(adj, dist, bestMax, t)
        r == IF dirty
             THEN recompute(edges, g.adj, g.dist, g.bestMax)
             ELSE [adj |-> g.adj, dist |-> g.dist, bestMax |-> g.bestMax,
                   dirty |-> dirty]
    IN  [ adj |-> [i \in 1 .. Len(r.adj) |->
                     SelectSeq(r.adj[i], LAMBDA id : edges[id + 1].alive)],
          dist |-> r.dist, bestMax |-> r.bestMax, dirty |-> r.dirty,
          ret |-> IF r.dist[t + 1] = INF THEN -1 ELSE r.bestMax[t + 1],
          recomputed |-> dirty ]

\* LexiSSSP::ask for t >= 0; ret is the returned value and recomputed tells
\* whether the call ran recompute
ask(edges, adj, dist, bestMax, dirty, t) ==
    LET g == growToInclude(adj, dist, bestMax, t)
        r == IF dirty
             THEN recompute(edges, g.adj, g.dist, g.bestMax)
             ELSE [adj |-> g.adj, dist |-> g.dist, bestMax |-> g.bestMax,
                   dirty |-> dirty]
    IN  [ adj |-> r.adj, dist |-> r.dist, bestMax |-> r.bestMax, dirty |-> r.dirty,
          ret |-> IF r.dist[t + 1] = INF THEN -1 ELSE r.bestMax[t + 1],
          recomputed |-> dirty ]

(***************************************************************************)
(* The program: load, construct, then commands.                            *)
(***************************************************************************)

Store == [edges |-> edges_, adj |-> adj_, bucket |-> bucket_]

\* per target, the distance label a recompute run on the given store and
\* labels computes (INF beyond the label vectors)
DistLabels(edges, adj, dist, bestMax) ==
    LET r == recompute(edges, adj, dist, bestMax) IN
    [t \in Targets |-> IF t + 1 <= Len(r.dist) THEN r.dist[t + 1] ELSE INF]

\* per target, the value ask(t) returns when called on the given engine
Answers(edges, adj, dist, bestMax, dirty) ==
    [t \in Targets |-> ask(edges, adj, dist, bestMax, dirty, t).ret]

\* what lastOp records of a call: its name, the target t of an ASK, what it
\* returned (ok for REM, ret for ASK), the triple a REM removed (key, <<>> if
\* none), whether it ran recompute and whether it was the first call on the
\* engine.  For ADD it also keeps
\* what the engine would have said just before the call: distsBefore, the
\* distance labels of a recompute, and answersBefore, the values of ask.
Op(op, key, t, ok, ret, recomputed, first) ==
    [ op |-> op, key |-> key, t |-> t, ok |-> ok, ret |-> ret,
      recomputed |-> recomputed, first |-> first,
      distsBefore |-> <<>>, answersBefore |-> <<>> ]

\* DynamicDirectedGraph graph(N), before any edge is loaded
Init ==
    /\ phase = "load"
    /\ edges_ = <<>>
    /\ adj_ = Fill(NInitial + 1, <<>>)
    /\ bucket_ = [k \in {} |-> <<>>]
    /\ dist_ = <<>>
    /\ bestMax_ = <<>>
    /\ dirty_ = FALSE
    /\ lastOp = Op("init", <<>>, -1, FALSE, -1, FALSE, FALSE)
    /\ DbInit
    /\ LoopInit
    /\ TwinInit

\* graph.addEdge(u, v, w) of the loading loop
LoadEdge(k) ==
    /\ phase = "load"
    /\ Len(edges_) < MaxEdges
    /\ lastOp' = Op("load", <<>>, -1, FALSE, -1, FALSE, FALSE)
    /\ LET g == addEdge(Store, k[1], k[2], k[3]) IN
         /\ edges_' = g.edges
         /\ adj_' = g.adj
         /\ bucket_' = g.bucket
    /\ UNCHANGED <<phase, dist_, bestMax_, dirty_>>
    /\ UNCHANGED dbvars
    /\ UNCHANGED loopvars
    /\ UNCHANGED twinvars

\* LexiSSSP engine(graph, S)
Construct ==
    /\ phase = "load"
    /\ phase' = "run"
    /\ lastOp' = Op("new", <<>>, -1, FALSE, -1, FALSE, FALSE)
    /\ LET e == LexiSSSP(adj_) IN
         /\ dist_' = e.dist
         /\ bestMax_' = e.bestMax
         /\ dirty_' = e.dirty
    /\ UNCHANGED <<edges_, adj_, bucket_>>
    /\ UNCHANGED dbvars
    /\ UNCHANGED loopvars
    /\ UNCHANGED twinvars

\* LexiSSSP::addEdgeCmd
AddEdgeCmd(k) ==
    /\ phase = "run"
    /\ Len(edges_) < MaxEdges
    /\ lastOp' = [ Op("add", <<>>, -1, FALSE, -1, FALSE, FALSE) EXCEPT
                     !.distsBefore = DistLabels(edges_, adj_, dist_, bestMax_),
                     !.answersBefore = Answers(edges_, adj_, dist_, bestMax_, dirty_) ]
    /\ LET g  == addEdge(Store, k[1], k[2], k[3])
           gr == growToInclude(g.adj, dist_, bestMax_, Max(k[1], k[2]))
       IN  /\ edges_' = g.edges
           /\ bucket_' = g.bucket
           /\ adj_' = gr.adj
           /\ dist_' = gr.dist
           /\ bestMax_' = gr.bestMax
    /\ dirty_' = TRUE
    /\ UNCHANGED phase
    /\ UNCHANGED dbvars
    /\ UNCHANGED loopvars
    /\ UNCHANGED twinvars

\* a faulty variant of MarkIfRemoved that marks the cache dirty after every REM
MarkAlways(removed, dirty) == TRUE

\* a faulty variant of MarkIfRemoved that never marks the cache dirty
MarkNever(removed, dirty) == dirty

\* removeEdgeCmd, lines 76-78: dirty_ after the store's answer
MarkIfRemoved(removed, dirty) == IF removed THEN TRUE ELSE dirty

\* LexiSSSP::removeEdgeCmd
RemoveEdgeCmd(k) ==
    /\ phase = "run"
    /\ LET g == removeEdge(Store, k[1], k[2], k[3]) IN
         /\ edges_' = g.edges
         /\ adj_' = g.adj
         /\ bucket_' = g.bucket
         /\ dirty_' = MarkIfRemoved(g.ret, dirty_)
         /\ lastOp' = Op("rem", IF g.ret THEN k ELSE <<>>, -1, g.ret, -1,
                         FALSE, FALSE)
    /\ UNCHANGED <<phase, dist_, bestMax_>>
    /\ UNCHANGED dbvars
    /\ UNCHANGED loopvars
    /\ UNCHANGED twinvars

\* a faulty variant of touch that leaves the flag as it is
TouchForgets ==
    /\ phase = "run"
    /\ lastOp' = Op("touch", <<>>, -1, FALSE, -1, FALSE, FALSE)
    /\ UNCHANGED <<phase, edges_, adj_, bucket_, dist_, bestMax_, dirty_>>
    /\ UNCHANGED dbvars
    /\ UNCHANGED loopvars
    /\ UNCHANGED twinvars

\* LexiSSSP::touch
Touch ==
    /\ phase = "run"
    /\ dirty_' = TRUE
    /\ lastOp' = Op("touch", <<>>, -1, FALSE, -1, FALSE, FALSE)
    /\ UNCHANGED <<phase, edges_, adj_, bucket_, dist_, bestMax_>>
    /\ UNCHANGED dbvars
    /\ UNCHANGED loopvars
    /\ UNCHANGED twinvars

\* LexiSSSP::ask; first tells whether it is the first call on the engine
Ask(t) ==
    /\ phase = "run"
    /\ LET r == ask(edges_, adj_, dist_, bestMax_, dirty_, t) IN
         /\ adj_' = r.adj
         /\ dist_' = r.dist
         /\ bestMax_' = r.bestMax
         /\ dirty_' = r.dirty
         /\ lastOp' = Op("ask", <<>>, t, FALSE, r.ret, r.recomputed,
                         lastOp.op = "new")
    /\ UNCHANGED <<phase, edges_, bucket_>>
    /\ UNCHANGED dbvars
    /\ UNCHANGED loopvars
    /\ UNCHANGED twinvars

Next ==
    \/ \E k \in EdgeInputs : LoadEdge(k)
    \/ Construct
    \/ \E k \in EdgeInputs : AddEdgeCmd(k)
    \/ \E k \in EdgeInputs : RemoveEdgeCmd(k)
    \/ Touch
    \/ \E t \in Targets : Ask(t)

Spec == Init /\ [][Next]_vars

(***************************************************************************)
(* Reference semantics, from the problem statement of LexiPathEngine.h     *)
(* (lines 20-24), by enumeration of walks and independent of recompute.    *)
(***************************************************************************)

\* node ids the store can address
NodeIds(adj) == 0 .. Max(S_, nodeCapacity(adj))

\* WalkLabels(edges, adj, n)[x]: the <<sum, maximum>> pairs of the walks from
\* S_ to x that use at most n alive edges (the empty walk of S_ is <<0, 0>>)
RECURSIVE WalkLabels(_, _, _)
WalkLabels(edges, adj, n) ==
    IF n = 0
    THEN [x \in NodeIds(adj) |-> IF x = S_ THEN {<<0, 0>>} ELSE {}]
    ELSE LET prev == WalkLabels(edges, adj, n - 1) IN
         [x \in NodeIds(adj) |->
            prev[x] \cup
            UNION { { <<l[1] + edges[i].w, Max(l[2], edges[i].w)>> : l \in prev[edges[i].u] }
                    : i \in {j \in 1 .. Len(edges) : edges[j].alive /\ edges[j].v = x} }]

\* the labels of all paths to t: with non-negative weights a walk that repeats
\* an edge is never better than the path inside it, and a path has at most
\* Len(edges) edges
PathLabels(edges, adj, t) ==
    IF t \in NodeIds(adj) THEN WalkLabels(edges, adj, Len(edges))[t] ELSE {}

Reachable(edges, adj, t) == PathLabels(edges, adj, t) # {}

\* the minimal total weight of a path to a reachable t
TrueDist(edges, adj, t) ==
    CHOOSE d \in {l[1] : l \in PathLabels(edges, adj, t)} :
        \A l \in PathLabels(edges, adj, t) : d <= l[1]

\* the minimal maximum edge weight among the paths of minimal total weight
TrueBottleneck(edges, adj, t) ==
    LET best == {l \in PathLabels(edges, adj, t) : l[1] = TrueDist(edges, adj, t)} IN
    CHOOSE b \in {l[2] : l \in best} : \A l \in best : b <= l[2]

\* what ASK t is to print
Expected(edges, adj, t) ==
    IF Reachable(edges, adj, t) THEN TrueBottleneck(edges, adj, t) ELSE -1

(***************************************************************************)
(* Observations used by the properties.                                    *)
(***************************************************************************)

\* the value ask(t) would return if it were called in this state
AnswerOf(t) == ask(edges_, adj_, dist_, bestMax_, dirty_, t).ret

\* the distance labels a recompute run in this state computes
DistsNow == DistLabels(edges_, adj_, dist_, bestMax_)

\* the values ask returns in this state
AnswersNow == Answers(edges_, adj_, dist_, bestMax_, dirty_)

\* the store as it was before its newest record was inserted, as far as
\* traversals can tell (the newest record not alive)
EdgesBeforeNewest == [edges_ EXCEPT ![Len(edges_)].alive = FALSE]

\* ids (as indices of edges_) of the alive records with triple k
AliveInstances(k) ==
    {i \in 1 .. Len(edges_) :
        edges_[i].alive /\ <<edges_[i].u, edges_[i].v, edges_[i].w>> = k}

SetMax(s) == CHOOSE m \in s : \A x \in s : x <= m

\* the step is a call of ask(t), a removeEdgeCmd(k) that returned true, any
\* removeEdgeCmd, addEdgeCmd, touch or the constructor: every call writes lastOp
Asked(t) == lastOp'.op = "ask" /\ lastOp'.t = t
Removed(k) == lastOp'.op = "rem" /\ lastOp'.ok /\ lastOp'.key = k
RemCalled == lastOp'.op = "rem"
Added == lastOp'.op = "add"
Touched == lastOp'.op = "touch"
Constructed == lastOp'.op = "new"

(***************************************************************************)
(* Properties.                                                             *)
(***************************************************************************)

\* C1: ask(t) on a reachable t returns the minimum, over the paths of alive
\* edges from the source to t of minimal total weight, of the maximum edge
\* weight on the path (0 for the source); a heavier path is never preferred.
C1_LexicographicAnswer ==
    (lastOp.op = "ask" /\ Reachable(edges_, adj_, lastOp.t))
        => lastOp.ret = TrueBottleneck(edges_, adj_, lastOp.t)

\* an ASK answered although a strictly heavier path with a strictly smaller
\* bottleneck exists
C1_Witness ==
    /\ lastOp.op = "ask"
    /\ \E l \in PathLabels(edges_, adj_, lastOp.t) :
          /\ l[1] > TrueDist(edges_, adj_, lastOp.t)
          /\ l[2] < TrueBottleneck(edges_, adj_, lastOp.t)
          /\ lastOp.ret = TrueBottleneck(edges_, adj_, lastOp.t)

\* C2: ask(t) returns -1 exactly when no path of alive edges leads from the
\* source to t, and a non-negative integer otherwise.
C2_UnreachableSentinel ==
    lastOp.op = "ask" =>
        /\ (lastOp.ret = -1) <=> ~Reachable(edges_, adj_, lastOp.t)
        /\ lastOp.ret >= -1

\* the first ASK after an insertion answers with a finite value for a node
\* that only the newest edge makes reachable
C2_Witness ==
    /\ lastOp.op = "ask"
    /\ lastOp.recomputed
    /\ ~lastOp.first
    /\ lastOp.ret >= 0
    /\ edges_ # <<>>
    /\ edges_[Len(edges_)].alive
    /\ ~Reachable(EdgesBeforeNewest, adj_, lastOp.t)

\* C3: consecutive ASKs with no mutation in between return, for each target,
\* the same value every time: the value an ASK returned is the one the next
\* ASK of that target returns, and an ASK that follows an ASK changes no
\* target's answer.
C3_RepeatedAsk ==
    [][ \A t \in Targets : Asked(t) =>
          /\ AnswerOf(t)' = lastOp'.ret
          /\ lastOp.op = "ask" => \A x \in Targets : AnswerOf(x)' = AnswerOf(x) ]_vars

\* an ASK right after an ASK, answered from the cache with a bottleneck
C3_Witness ==
    /\ lastOp.op = "ask"
    /\ ~lastOp.recomputed
    /\ lastOp.ret >= 1

\* C4: addEdgeCmd never increases the distance label a recompute computes
\* for any node (INF counts as largest): after an ADD, the label a recompute
\* gives each node is at most the label a recompute gave it before the call.
C4_AddNeverLengthens ==
    lastOp.op = "add" =>
        \A t \in Targets : DistsNow[t] <= lastOp.distsBefore[t]

\* an ADD that strictly shortened the distance of a node that was reachable
C4_Witness ==
    /\ lastOp.op = "add"
    /\ \E t \in Targets :
          /\ lastOp.distsBefore[t] < INF
          /\ DistsNow[t] < lastOp.distsBefore[t]

\* C5 as stated: addEdgeCmd never increases the value ask(t) returns for a
\* node t that was reachable before the addition.
C5_AddNeverRaisesBottleneck ==
    lastOp.op = "add" =>
        \A t \in Targets :
            lastOp.answersBefore[t] # -1 => AnswersNow[t] <= lastOp.answersBefore[t]

\* C5 amended: addEdgeCmd never increases the value ask(t) returns for a
\* node t that was reachable before the addition and whose shortest distance
\* the addition leaves unchanged.
C5_AddNeverRaisesBottleneckAtEqualDist ==
    lastOp.op = "add" =>
        \A t \in Targets :
            (lastOp.answersBefore[t] # -1 /\ DistsNow[t] = lastOp.distsBefore[t])
                => AnswersNow[t] <= lastOp.answersBefore[t]

\* an ADD that kept the distance of a node and strictly lowered its bottleneck
C5_Witness ==
    /\ lastOp.op = "add"
    /\ \E t \in Targets :
          /\ lastOp.answersBefore[t] # -1
          /\ DistsNow[t] = lastOp.distsBefore[t]
          /\ AnswersNow[t] < lastOp.answersBefore[t]

\* C6: removeEdgeCmd of a triple with no alive instance changes nothing: no
\* edge record, alive flag, adjacency sequence, bucket or cached label, and
\* not the dirty flag.  These six are all the storage of the store and of
\* the engine, so every later ask answers as it would have without the call.
C6_NoOpRemoval ==
    [][ \A k \in EdgeInputs :
          (RemoveEdgeCmd(k) /\ AliveInstances(k) = {}) =>
              UNCHANGED <<edges_, adj_, bucket_, dist_, bestMax_, dirty_>> ]_vars

\* a REM that removed nothing, on a store that holds edges and a clean cache
C6_Witness ==
    /\ lastOp.op = "rem"
    /\ ~lastOp.ok
    /\ ~dirty_
    /\ \E t \in Targets : AnswerOf(t) >= 1

\* the labels before a call are the leading part of the labels after it
LabelsKept ==
    /\ Len(dist_) <= Len(dist_')
    /\ SubSeq(dist_', 1, Len(dist_)) = dist_
    /\ SubSeq(bestMax_', 1, Len(bestMax_)) = bestMax_

\* C7: addEdgeCmd and touch set dirty, removeEdgeCmd sets it exactly when the
\* store removed an edge; ask recomputes exactly when dirty is set and leaves
\* it clear, so an ask that follows an ask does not recompute.
C7_DirtyProtocol ==
    [][ /\ Added => dirty_'
        /\ RemCalled => dirty_' = (dirty_ \/ lastOp'.ok)
        /\ Touched => dirty_'
        /\ \A t \in Targets : Asked(t) =>
              /\ lastOp'.recomputed = dirty_
              /\ ~dirty_'
              /\ ~dirty_ => LabelsKept
              /\ lastOp.op = "ask" => ~lastOp'.recomputed ]_vars

\* an ASK that recomputed after a burst of mutations that removed an edge
C7_Witness ==
    /\ lastOp.op = "ask"
    /\ lastOp.recomputed
    /\ ~lastOp.first
    /\ ~dirty_
    /\ \E i \in 1 .. Len(edges_) : ~edges_[i].alive

\* C8: a freshly constructed engine is dirty, and its first ask, before any
\* command or touch, recomputes once and answers for the edges loaded into
\* the store before the construction.
C8_FreshEngineDirty ==
    [][ /\ Constructed => dirty_'
        /\ \A t \in Targets : (lastOp.op = "new" /\ Asked(t)) =>
              /\ lastOp'.recomputed
              /\ ~dirty_'
              /\ lastOp'.ret = Expected(edges_, adj_, t) ]_vars

\* a first ASK that found a loaded path
C8_Witness ==
    /\ lastOp.op = "ask"
    /\ lastOp.first
    /\ lastOp.recomputed
    /\ lastOp.ret >= 1

\* C9: a successful removeEdge clears the alive flag of exactly one record, the
\* one with the largest id among the alive instances of the triple, and
\* changes no other record.
C9_RemovesNewestInstance ==
    [][ \A k \in EdgeInputs : Removed(k) =>
          /\ AliveInstances(k) # {}
          /\ edges_' = [edges_ EXCEPT ![SetMax(AliveInstances(k))].alive = FALSE] ]_vars

\* a successful REM of a triple with two instances: the older one is alive,
\* the newer one is not
C9_Witness ==
    /\ lastOp.op = "rem"
    /\ lastOp.ok
    /\ \E i, j \in 1 .. Len(edges_) :
          /\ i < j
          /\ <<edges_[i].u, edges_[i].v, edges_[i].w>> = lastOp.key
          /\ <<edges_[j].u, edges_[j].v, edges_[j].w>> = lastOp.key
          /\ edges_[i].alive
          /\ ~edges_[j].alive

\* C10: removeEdge returns true exactly when an alive edge with the triple
\* exists at the call, and false (no failure) otherwise.
C10_RemoveReportsPresence ==
    [][ \A k \in EdgeInputs : RemoveEdgeCmd(k) =>
          lastOp'.ok = (AliveInstances(k) # {}) ]_vars

\* a REM that returned false on a full store whose every edge had been
\* removed before
C10_Witness ==
    /\ lastOp.op = "rem"
    /\ ~lastOp.ok
    /\ Len(edges_) = MaxEdges
    /\ \A i \in 1 .. Len(edges_) : ~edges_[i].alive

(***************************************************************************)
(* The store used directly.                                                *)
(*                                                                         *)
(* DynamicDirectedGraph is a public class: a caller may grow it, insert    *)
(* and remove edges and look things up without going through the engine,  *)
(* before or after an engine is constructed on it (the loading loop of     *)
(* runLexiEngineFromString does so, then calls touch).  StoreSpec drives   *)
(* the public methods of both classes in any order.                        *)
(***************************************************************************)

\* edges_ never holds more than MaxStoreEdges records under StoreSpec
MaxStoreEdges == 2

\* the triples of the calls under StoreSpec: an edge out of the source, one
\* that grows the capacity further and a loop on a node that can be the last
\* one the store addresses
StoreInputs == { <<1, 2, 1>>, <<2, 3, 2>>, <<2, 2, 0>> }

\* node ids handed to ensureNode, outEdges and ask: a negative one, one the
\* triples name and one that no triple names
NodeArgs == {-1, 2, 4}

\* edge ids handed to edgeById: issued ones and never issued ones
IdArgs == {-1, 0, MaxStoreEdges}

\* Of a direct call on the store lastOp records the method (op), its argument
\* (x for a node id, key for a triple, id for an edge id) and what it returned
\* (id of addEdge, removed of removeEdge, list of outEdges, how and e of
\* edgeById).

\* graph.ensureNode(x)
EnsureNode(x) ==
    /\ adj_' = ensureNode(adj_, x)
    /\ lastOp' = [op |-> "ensureNode", x |-> x]
    /\ UNCHANGED <<phase, edges_, bucket_, dist_, bestMax_, dirty_>>
    /\ UNCHANGED dbvars
    /\ UNCHANGED loopvars
    /\ UNCHANGED twinvars

\* graph.addEdge(u, v, w), before or after the engine is constructed
AddEdge(k) ==
    /\ Len(edges_) < MaxStoreEdges
    /\ LET g == addEdge(Store, k[1], k[2], k[3]) IN
         /\ edges_' = g.edges
         /\ adj_' = g.adj
         /\ bucket_' = g.bucket
         /\ lastOp' = [op |-> "addEdge", key |-> k, id |-> g.id]
    /\ UNCHANGED <<phase, dist_, bestMax_, dirty_>>
    /\ UNCHANGED dbvars
    /\ UNCHANGED loopvars
    /\ UNCHANGED twinvars

\* graph.removeEdge(u, v, w)
RemoveEdge(k) ==
    /\ LET g == removeEdge(Store, k[1], k[2], k[3]) IN
         /\ edges_' = g.edges
         /\ adj_' = g.adj
         /\ bucket_' = g.bucket
         /\ lastOp' = [op |-> "removeEdge", key |-> k, removed |-> g.ret]
    /\ UNCHANGED <<phase, dist_, bestMax_, dirty_>>
    /\ UNCHANGED dbvars
    /\ UNCHANGED loopvars
    /\ UNCHANGED twinvars

\* graph.outEdges(u): a const method, the store is left as it is
OutEdges(u) ==
    /\ lastOp' = [op |-> "outEdges", x |-> u, list |-> outEdges(adj_, u)]
    /\ UNCHANGED <<phase, edges_, adj_, bucket_, dist_, bestMax_, dirty_>>
    /\ UNCHANGED dbvars
    /\ UNCHANGED loopvars
    /\ UNCHANGED twinvars

\* what edges_[id] of edgeById does: std::vector::operator[] checks nothing,
\* so for an id outside 0 .. edgeCount() - 1 the behaviour is undefined: the
\* process may be stopped (how = "fault") or the call may return a reference
\* to whatever lies there (how = "record"; e means nothing after a fault)
EdgeByIdOutcomes(edges, id) ==
    IF 0 <= id /\ id < Len(edges)
    THEN { [how |-> "record", e |-> edgeById(edges, id)] }
    ELSE { [how |-> "fault",  e |-> [u |-> 0, v |-> 0, w |-> 0, alive |-> FALSE]],
           [how |-> "record", e |-> [u |-> 0, v |-> 0, w |-> 0, alive |-> FALSE]],
           [how |-> "record", e |-> [u |-> 0, v |-> 0, w |-> 0, alive |-> TRUE]] }

\* graph.edgeById(id)
EdgeById(id) ==
    /\ \E out \in EdgeByIdOutcomes(edges_, id) :
          lastOp' = [op |-> "edgeById", id |-> id, how |-> out.how, e |-> out.e]
    /\ UNCHANGED <<phase, edges_, adj_, bucket_, dist_, bestMax_, dirty_>>
    /\ UNCHANGED dbvars
    /\ UNCHANGED loopvars
    /\ UNCHANGED twinvars

\* engine.addEdgeCmd(u, v, w) within the bound of StoreSpec
StoreAddEdgeCmd(k) ==
    /\ Len(edges_) < MaxStoreEdges
    /\ AddEdgeCmd(k)

\* engine.ask(t) for t >= 0, within or beyond the capacity
AskNode(t) ==
    /\ t >= 0
    /\ Ask(t)

\* what the return statement of ask does for t < 0: growToInclude(t) has
\* returned at once, and static_cast<std::size_t>(t) is an index far beyond
\* the end of dist_ and bestMax_, which operator[] does not check.  The
\* behaviour is undefined: the process may be stopped (how = "fault"), the
\* word read as dist_ may be INF (ret = -1) or not, and then the word read as
\* bestMax_ is returned, whatever it is.
NegativeAskOutcomes ==
    { [how |-> "fault", ret |-> -1],
      [how |-> "value", ret |-> -1],
      [how |-> "value", ret |-> 0],
      [how |-> "value", ret |-> IntMax] }

\* engine.ask(t) for t < 0
AskNegative(t) ==
    /\ phase = "run"
    /\ t < 0
    /\ LET g == growToInclude(adj_, dist_, bestMax_, t)
           r == IF dirty_
                THEN recompute(edges_, g.adj, g.dist, g.bestMax)
                ELSE [adj |-> g.adj, dist |-> g.dist, bestMax |-> g.bestMax,
                      dirty |-> dirty_]
       IN  /\ adj_' = r.adj
           /\ dist_' = r.dist
           /\ bestMax_' = r.bestMax
           /\ dirty_' = r.dirty
    /\ \E out \in NegativeAskOutcomes :
          lastOp' = [op |-> "askNegative", t |-> t, how |-> out.how, ret |-> out.ret]
    /\ UNCHANGED <<phase, edges_, bucket_>>
    /\ UNCHANGED dbvars
    /\ UNCHANGED loopvars
    /\ UNCHANGED twinvars

StoreNext ==
    \/ \E x \in NodeArgs : EnsureNode(x)
    \/ \E k \in StoreInputs : AddEdge(k)
    \/ \E k \in StoreInputs : RemoveEdge(k)
    \/ \E u \in NodeArgs : OutEdges(u)
    \/ \E id \in IdArgs : EdgeById(id)
    \/ Construct
    \/ Touch
    \/ \E k \in StoreInputs : StoreAddEdgeCmd(k)
    \/ \E k \in StoreInputs : RemoveEdgeCmd(k)
    \/ \E t \in NodeArgs : AskNode(t)
    \/ \E t \in NodeArgs : AskNegative(t)

StoreSpec == Init /\ [][StoreNext]_vars

\* the (source, target, weight) of a record
TripleOf(e) == <<e.u, e.v, e.w>>

\* C11: edge ids are stable and never reused: addEdge returns edgeCount() as
\* it was just before the call and raises it by one (so does addEdgeCmd), no
\* other call changes edgeCount(), removals included, and the record under an
\* id keeps its (source, target, weight) for ever.  Hence the n-th addEdge on
\* a store returns n and the ids are strictly increasing.
C11_StableIds ==
    [][ /\ lastOp'.op = "addEdge" =>
              /\ lastOp'.id = edgeCount(edges_)
              /\ edgeCount(edges_') = edgeCount(edges_) + 1
        /\ lastOp'.op = "add" => edgeCount(edges_') = edgeCount(edges_) + 1
        /\ lastOp'.op \notin {"addEdge", "add"} =>
              edgeCount(edges_') = edgeCount(edges_)
        /\ \A id \in 0 .. (edgeCount(edges_) - 1) :
              TripleOf(edgeById(edges_', id)) = TripleOf(edgeById(edges_, id)) ]_vars

\* an addEdge that followed the removal of the only edge and was given a new
\* id, for a triple other than the removed one
C11_Witness ==
    /\ lastOp.op = "addEdge"
    /\ lastOp.id = 1
    /\ ~edgeById(edges_, 0).alive
    /\ TripleOf(edgeById(edges_, 0)) # lastOp.key

\* C12: addEdge(u, v, w) with u, v >= 0 succeeds with exactly these effects:
\* edgeCount() grows by one, the new record is alive and holds the triple, its
\* id is appended at the end of the adjacency sequence of u and on top of the
\* bucket of the triple; the earlier records, the adjacency sequences of the
\* other nodes, the other buckets and the engine are left as they were.
C12_AddEdgeEffects ==
    [][ \A k \in StoreInputs : (lastOp'.op = "addEdge" /\ lastOp'.key = k) =>
          /\ edgeCount(edges_') = edgeCount(edges_) + 1
          /\ edgeById(edges_', lastOp'.id) =
                [u |-> k[1], v |-> k[2], w |-> k[3], alive |-> TRUE]
          /\ SubSeq(edges_', 1, Len(edges_)) = edges_
          /\ outEdges(adj_', k[1]) = Append(outEdges(adj_, k[1]), lastOp'.id)
          /\ \A x \in 0 .. nodeCapacity(adj_') :
                x # k[1] => outEdges(adj_', x) = outEdges(adj_, x)
          /\ bucket_'[k] = Append(IF k \in DOMAIN bucket_ THEN bucket_[k] ELSE <<>>,
                                  lastOp'.id)
          /\ \A j \in DOMAIN bucket_ \ {k} :
                j \in DOMAIN bucket_' /\ bucket_'[j] = bucket_[j]
          /\ DOMAIN bucket_' = DOMAIN bucket_ \cup {k}
          /\ UNCHANGED <<dist_, bestMax_, dirty_>> ]_vars

\* an addEdge of a second instance of a triple: the adjacency sequence of the
\* source and the bucket hold both ids, the new one last
C12_Witness ==
    /\ lastOp.op = "addEdge"
    /\ lastOp.id = 1
    /\ bucket_[lastOp.key] = <<0, 1>>
    /\ outEdges(adj_, lastOp.key[1]) = <<0, 1>>
    /\ edgeById(edges_, 1).alive

\* C13: removal is a soft delete: removeEdge (called directly or by
\* removeEdgeCmd) never changes edgeCount(), never changes an adjacency
\* sequence and never changes the (source, target, weight) of a record; all
\* it does to the records is clear the alive flag of one of them when it
\* returns true, and of none when it returns false.
C13_SoftDelete ==
    [][ lastOp'.op \in {"removeEdge", "rem"} =>
          LET cleared == {id \in 0 .. (edgeCount(edges_) - 1) :
                            edgeById(edges_, id).alive # edgeById(edges_', id).alive}
              removed == IF lastOp'.op = "rem" THEN lastOp'.ok ELSE lastOp'.removed
          IN  /\ edgeCount(edges_') = edgeCount(edges_)
              /\ adj_' = adj_
              /\ \A id \in 0 .. (edgeCount(edges_) - 1) :
                    TripleOf(edgeById(edges_', id)) = TripleOf(edgeById(edges_, id))
              /\ \A id \in cleared : edgeById(edges_, id).alive
              /\ Cardinality(cleared) = IF removed THEN 1 ELSE 0 ]_vars

\* a removeEdge that returned true after which outEdges of the source still
\* lists the id of the dead record
C13_Witness ==
    /\ lastOp.op = "removeEdge"
    /\ lastOp.removed
    /\ \E id \in 0 .. (edgeCount(edges_) - 1) :
          /\ ~edgeById(edges_, id).alive
          /\ TripleOf(edgeById(edges_, id)) = lastOp.key
          /\ \E i \in 1 .. Len(outEdges(adj_, lastOp.key[1])) :
                outEdges(adj_, lastOp.key[1])[i] = id

\* C14: outEdges(u) for u < 0 or u beyond the capacity returns the empty
\* sequence and leaves the store as it was: the capacity is not grown.
C14_OutEdgesOutOfRange ==
    [][ \A u \in NodeArgs :
          ( /\ lastOp'.op = "outEdges"
            /\ lastOp'.x = u
            /\ (u < 0 \/ u > nodeCapacity(adj_)) ) =>
              /\ lastOp'.list = <<>>
              /\ nodeCapacity(adj_') = nodeCapacity(adj_)
              /\ UNCHANGED <<edges_, adj_, bucket_>> ]_vars

\* an outEdges beyond the capacity that returned nothing although the last
\* node the store addresses has outgoing edges
C14_Witness ==
    /\ lastOp.op = "outEdges"
    /\ lastOp.x > nodeCapacity(adj_)
    /\ lastOp.list = <<>>
    /\ outEdges(adj_, nodeCapacity(adj_)) # <<>>

\* C15 as stated: ask(t) is total over node ids: for t < 0 it returns -1
\* without a fault and without reading outside the label vectors (the only
\* outcome of AskNegative that does so is a returned -1 that was not read from
\* memory, which the code has no statement for); for t beyond the capacity the
\* store and the label vectors are grown to cover t before any access and the
\* call returns -1.
C15_AskTotal ==
    [][ /\ lastOp'.op = "askNegative" =>
              /\ lastOp'.how = "value"
              /\ lastOp'.ret = -1
        /\ \A t \in NodeArgs : (Asked(t) /\ t > nodeCapacity(adj_)) =>
              /\ nodeCapacity(adj_') >= t
              /\ Len(dist_') > t
              /\ Len(bestMax_') > t
              /\ lastOp'.ret = -1 ]_vars

\* C16 as stated: edgeById of an id the store never issued (negative or
\* >= edgeCount()) is a hard failure: the call ends in a fault and never
\* returns a record.  (edgeById changes nothing, so edgeCount() here is the
\* one of the call.)
C16_EdgeByIdFailsLoudly ==
    ( /\ lastOp.op = "edgeById"
      /\ (lastOp.id < 0 \/ lastOp.id >= edgeCount(edges_)) )
        => lastOp.how = "fault"

\* C17: the capacity of the store is monotone: no call (ensureNode, addEdge,
\* removeEdge, addEdgeCmd, removeEdgeCmd, ask or any other) lowers
\* nodeCapacity(); ensureNode(x) with x >= 0 leaves nodeCapacity() >= x and
\* changes nothing when x is covered already; ensureNode of a negative id
\* changes nothing.
C17_CapacityMonotone ==
    [][ /\ nodeCapacity(adj_') >= nodeCapacity(adj_)
        /\ \A x \in NodeArgs : (lastOp'.op = "ensureNode" /\ lastOp'.x = x) =>
              /\ x >= 0 => nodeCapacity(adj_') >= x
              /\ (x < 0 \/ x <= nodeCapacity(adj_)) => adj_' = adj_
              /\ UNCHANGED <<edges_, bucket_, dist_, bestMax_, dirty_>> ]_vars

\* an ensureNode of a node below the capacity of a store that holds edges and
\* was grown beyond the nodes they name: nothing was cut off
C17_Witness ==
    /\ lastOp.op = "ensureNode"
    /\ lastOp.x >= 0
    /\ lastOp.x < nodeCapacity(adj_)
    /\ edges_ # <<>>
    /\ \A i \in 1 .. Len(edges_) : edges_[i].v < nodeCapacity(adj_)

(***************************************************************************)
(* The engine at the integer widths of the source.                         *)
(*                                                                         *)
(* Weights are int (32 bits), distance labels are long long (64 bits) and  *)
(* INF is 1LL << 62.  A long long is held here as three limbs <<a, b, c>>  *)
(* standing for a * 2^42 + b * 2^21 + c with 0 <= b, c < 2^21; 0 <= a <    *)
(* 2^22 holds the top 22 bits, so that a >= 2^21 is a set sign bit.  The   *)
(* operators below are those of LexiSSSP again, over this representation.  *)
(***************************************************************************)

\* 2^21, the base of the limbs
LimbBase == 2097152

\* static_cast<long long>(w) for an int w >= 0
LLOfInt(w) == <<0, w \div LimbBase, w % LimbBase>>

\* the mathematical sum of two non-negative values, carried through the
\* limbs; the top limb is left as large as it gets
MathAdd(x, y) ==
    LET c == x[3] + y[3]
        b == x[2] + y[2] + (c \div LimbBase)
    IN  <<x[1] + y[1] + (b \div LimbBase), b % LimbBase, c % LimbBase>>

\* the 64 bits a long long keeps of a value
LLWrap(x) == <<x[1] % (2 * LimbBase), x[2], x[3]>>

\* the sign bit of a long long
LLNegative(x) == x[1] >= LimbBase

\* x < y on long long
LLLess(x, y) ==
    IF LLNegative(x) # LLNegative(y) THEN LLNegative(x)
    ELSE \/ x[1] < y[1]
         \/ x[1] = y[1] /\ x[2] < y[2]
         \/ x[1] = y[1] /\ x[2] = y[2] /\ x[3] < y[3]

\* LexiSSSP::INF, 1LL << 62
INF64 == <<LimbBase \div 2, 0, 0>>

\* a faulty variant of AccumulateLL that adds in 32 bits (unsigned) and widens
\* the result afterwards
AccumulateU32(d, w) ==
    LET x == MathAdd(d, LLOfInt(w)) IN <<0, x[2] % 2048, x[3]>>

\* recompute, line 130: long long nd = cur.dist + static_cast<long long>(e.w)
AccumulateLL(d, w) == LLWrap(MathAdd(d, LLOfInt(w)))

\* LexiSSSP::PQItem::operator<
PQLessLL(a, o) ==
    IF a.dist # o.dist THEN LLLess(o.dist, a.dist)
    ELSE a.bottleneck > o.bottleneck

\* the index of pq.top(), as TopIndex
TopIndexLL(pq) ==
    CHOOSE i \in 1 .. Len(pq) :
        /\ \A j \in 1 .. Len(pq) : ~PQLessLL(pq[i], pq[j])
        /\ \A j \in 1 .. (i - 1) : PQLessLL(pq[j], pq[i])

\* LexiSSSP::LexiSSSP(g, S)
LexiSSSPLL(adj) ==
    [ dist    |-> Fill(nodeCapacity(adj) + 1, INF64),
      bestMax |-> Fill(nodeCapacity(adj) + 1, IntMax),
      dirty   |-> TRUE ]

\* LexiSSSP::growToInclude
growToIncludeLL(adj, dist, bestMax, x) ==
    IF x < 0 THEN [adj |-> adj, dist |-> dist, bestMax |-> bestMax]
    ELSE LET adj1 == ensureNode(adj, x) IN
         IF Len(dist) < x + 1
         THEN [ adj     |-> adj1,
                dist    |-> Resize(dist, x + 1, INF64),
                bestMax |-> Resize(bestMax, x + 1, IntMax) ]
         ELSE [adj |-> adj1, dist |-> dist, bestMax |-> bestMax]

\* recompute, line 134
AcceptLL(nd, nb, dv, bv) == LLLess(nd, dv) \/ (nd = dv /\ nb < bv)

\* recompute, lines 126-139; st = [dist, bestMax, pq, made], where made
\* collects every label <<v, nd, nb>> the loop assigns
RECURSIVE RelaxFromLL(_, _, _, _, _)
RelaxFromLL(edges, st, cur, eids, i) ==
    IF i > Len(eids) THEN st
    ELSE LET e == edgeById(edges, eids[i]) IN
         IF ~Scanned(e) THEN RelaxFromLL(edges, st, cur, eids, i + 1)
         ELSE LET nd == AccumulateLL(cur.dist, e.w)
                  nb == Max(cur.bottleneck, e.w)
              IN  IF AcceptLL(nd, nb, st.dist[e.v + 1], st.bestMax[e.v + 1])
                  THEN RelaxFromLL(edges,
                         [ dist    |-> [st.dist EXCEPT ![e.v + 1] = nd],
                           bestMax |-> [st.bestMax EXCEPT ![e.v + 1] = nb],
                           pq      |-> Append(st.pq,
                                         [dist |-> nd, bottleneck |-> nb, v |-> e.v]),
                           made    |-> st.made \cup {<<e.v, nd, nb>>} ],
                         cur, eids, i + 1)
                  ELSE RelaxFromLL(edges, st, cur, eids, i + 1)

\* recompute, lines 116-140
RECURSIVE DrainQueueLL(_, _, _)
DrainQueueLL(edges, adj, st) ==
    IF st.pq = <<>> THEN st
    ELSE LET i    == TopIndexLL(st.pq)
             cur  == st.pq[i]
             rest == [st EXCEPT !.pq = PopAt(st.pq, i)]
         IN  IF cur.dist # st.dist[cur.v + 1] \/ cur.bottleneck # st.bestMax[cur.v + 1]
             THEN DrainQueueLL(edges, adj, rest)
             ELSE DrainQueueLL(edges, adj,
                               RelaxFromLL(edges, rest, cur, outEdges(adj, cur.v), 1))

\* LexiSSSP::recompute
recomputeLL(edges, adj, dist, bestMax) ==
    LET g1  == growToIncludeLL(adj, dist, bestMax, nodeCapacity(adj))
        g2  == growToIncludeLL(g1.adj, Fill(Len(g1.dist), INF64),
                               Fill(Len(g1.bestMax), IntMax), S_)
        fin == DrainQueueLL(edges, g2.adj,
                 [ dist    |-> [g2.dist EXCEPT ![S_ + 1] = LLOfInt(0)],
                   bestMax |-> [g2.bestMax EXCEPT ![S_ + 1] = 0],
                   pq      |-> << [dist |-> LLOfInt(0), bottleneck |-> 0, v |-> S_] >>,
                   made    |-> { <<S_, LLOfInt(0), 0>> } ])
    IN  [ adj |-> g2.adj, dist |-> fin.dist, bestMax |-> fin.bestMax,
          dirty |-> FALSE, made |-> fin.made ]

\* LexiSSSP::ask for t >= 0
askLL(edges, adj, dist, bestMax, dirty, t) ==
    LET g == growToIncludeLL(adj, dist, bestMax, t)
        r == IF dirty
             THEN recomputeLL(edges, g.adj, g.dist, g.bestMax)
             ELSE [adj |-> g.adj, dist |-> g.dist, bestMax |-> g.bestMax,
                   dirty |-> dirty]
    IN  [ adj |-> r.adj, dist |-> r.dist, bestMax |-> r.bestMax, dirty |-> r.dirty,
          ret |-> IF r.dist[t + 1] = INF64 THEN -1 ELSE r.bestMax[t + 1],
          recomputed |-> dirty ]

\* The triples of WideSpec: weights at the top of the int range along a chain
\* from the source, and a light shortcut.
WideInputs ==
    { <<1, 2, IntMax>>, <<2, 3, IntMax>>, <<3, 4, IntMax>>, <<1, 3, 1>> }

WideTargets == {k[1] : k \in WideInputs} \cup {k[2] : k \in WideInputs}

\* LexiSSSP engine(graph, S)
ConstructLL ==
    /\ phase = "load"
    /\ phase' = "run"
    /\ lastOp' = Op("new", <<>>, -1, FALSE, -1, FALSE, FALSE)
    /\ LET e == LexiSSSPLL(adj_) IN
         /\ dist_' = e.dist
         /\ bestMax_' = e.bestMax
         /\ dirty_' = e.dirty
    /\ UNCHANGED <<edges_, adj_, bucket_>>
    /\ UNCHANGED dbvars
    /\ UNCHANGED loopvars
    /\ UNCHANGED twinvars

\* LexiSSSP::addEdgeCmd
AddEdgeCmdLL(k) ==
    /\ phase = "run"
    /\ Len(edges_) < MaxEdges
    /\ lastOp' = Op("add", <<>>, -1, FALSE, -1, FALSE, FALSE)
    /\ LET g  == addEdge(Store, k[1], k[2], k[3])
           gr == growToIncludeLL(g.adj, dist_, bestMax_, Max(k[1], k[2]))
       IN  /\ edges_' = g.edges
           /\ bucket_' = g.bucket
           /\ adj_' = gr.adj
           /\ dist_' = gr.dist
           /\ bestMax_' = gr.bestMax
    /\ dirty_' = TRUE
    /\ UNCHANGED phase
    /\ UNCHANGED dbvars
    /\ UNCHANGED loopvars
    /\ UNCHANGED twinvars

\* LexiSSSP::ask
AskLL(t) ==
    /\ phase = "run"
    /\ LET r == askLL(edges_, adj_, dist_, bestMax_, dirty_, t) IN
         /\ adj_' = r.adj
         /\ dist_' = r.dist
         /\ bestMax_' = r.bestMax
         /\ dirty_' = r.dirty
         /\ lastOp' = Op("ask", <<>>, t, FALSE, r.ret, r.recomputed,
                         lastOp.op = "new")
    /\ UNCHANGED <<phase, edges_, bucket_>>
    /\ UNCHANGED dbvars
    /\ UNCHANGED loopvars
    /\ UNCHANGED twinvars

WideNext ==
    \/ \E k \in WideInputs : LoadEdge(k)
    \/ ConstructLL
    \/ \E k \in WideInputs : AddEdgeCmdLL(k)
    \/ \E k \in WideInputs : RemoveEdgeCmd(k)
    \/ \E t \in WideTargets : AskLL(t)

WideSpec == Init /\ [][WideNext]_vars

\* WalkLabels with the sums as mathematical sums of the weights
RECURSIVE WalkLabelsLL(_, _, _)
WalkLabelsLL(edges, adj, n) ==
    IF n = 0
    THEN [x \in NodeIds(adj) |-> IF x = S_ THEN {<<LLOfInt(0), 0>>} ELSE {}]
    ELSE LET prev == WalkLabelsLL(edges, adj, n - 1) IN
         [x \in NodeIds(adj) |->
            prev[x] \cup
            UNION { { <<MathAdd(l[1], LLOfInt(edges[i].w)), Max(l[2], edges[i].w)>> :
                        l \in prev[edges[i].u] }
                    : i \in {j \in 1 .. Len(edges) : edges[j].alive /\ edges[j].v = x} }]

PathLabelsLL(edges, adj, t) ==
    IF t \in NodeIds(adj) THEN WalkLabelsLL(edges, adj, Len(edges))[t] ELSE {}

\* the minimal total weight of a path to a reachable t
TrueDistLL(edges, adj, t) ==
    CHOOSE d \in {l[1] : l \in PathLabelsLL(edges, adj, t)} :
        \A l \in PathLabelsLL(edges, adj, t) : ~LLLess(l[1], d)

\* C18: path sums never overflow silently.  With weights up to the largest
\* int, every label a recompute assigns is the mathematical sum (and the
\* maximum) of the weights of a path of alive edges to that node, is not
\* negative and is below INF; the label recompute ends with for a reachable
\* node is the minimal such sum, the cached labels of a clean engine are
\* these, and ask never answers -1 for a reachable node.
C18_NoSilentOverflow ==
    LET r == recomputeLL(edges_, adj_, dist_, bestMax_) IN
    /\ \A m \in r.made :
          /\ <<m[2], m[3]>> \in PathLabelsLL(edges_, r.adj, m[1])
          /\ ~LLNegative(m[2])
          /\ LLLess(m[2], INF64)
    /\ \A x \in NodeIds(r.adj) :
          PathLabelsLL(edges_, r.adj, x) # {} =>
              /\ r.dist[x + 1] = TrueDistLL(edges_, r.adj, x)
              /\ LLLess(r.dist[x + 1], INF64)
              /\ (phase = "run" /\ ~dirty_ /\ x < Len(dist_)) => dist_[x + 1] = r.dist[x + 1]
    /\ lastOp.op = "ask" =>
          (lastOp.ret = -1 <=> PathLabelsLL(edges_, adj_, lastOp.t) = {})

\* an ASK of the end of a chain of three edges of the largest weight: the
\* label is beyond 2^32 and the answer is the largest int
C18_Witness ==
    /\ lastOp.op = "ask"
    /\ lastOp.t = 4
    /\ lastOp.ret = IntMax
    /\ LLLess(<<0, 2048, 0>>, dist_[5])
    /\ dist_[5] = <<0, 3071, LimbBase - 3>>

(***************************************************************************)
(* Bulk load through the store.                                            *)
(*                                                                         *)
(* runLexiEngineFromString inserts the initial edges with graph.addEdge,   *)
(* constructs the engine and calls touch.  BulkSpec lets the caller insert *)
(* and remove through the store at any time, before or after the engine   *)
(* is constructed, and tell the engine with touch.                         *)
(***************************************************************************)

\* the triples of BulkSpec: <<1,3,3>> ties with <<1,2,1>>,<<2,3,2>> on the
\* sum and loses on the bottleneck
BulkInputs == { <<1, 2, 1>>, <<2, 3, 2>>, <<1, 3, 3>> }

\* graph.addEdge(u, v, w), before or after the engine is constructed
BulkAddEdge(k) ==
    /\ Len(edges_) < MaxEdges
    /\ LET g == addEdge(Store, k[1], k[2], k[3]) IN
         /\ edges_' = g.edges
         /\ adj_' = g.adj
         /\ bucket_' = g.bucket
         /\ lastOp' = [op |-> "addEdge", key |-> k, id |-> g.id]
    /\ UNCHANGED <<phase, dist_, bestMax_, dirty_>>
    /\ UNCHANGED dbvars
    /\ UNCHANGED loopvars
    /\ UNCHANGED twinvars

\* engine.ask(t); lastOp also keeps the call before this one (prev) and
\* whether the label vectors had to grow (grew)
BulkAsk(t) ==
    /\ phase = "run"
    /\ LET r == ask(edges_, adj_, dist_, bestMax_, dirty_, t) IN
         /\ adj_' = r.adj
         /\ dist_' = r.dist
         /\ bestMax_' = r.bestMax
         /\ dirty_' = r.dirty
         /\ lastOp' = [ op |-> "ask", t |-> t, ret |-> r.ret,
                        recomputed |-> r.recomputed, prev |-> lastOp.op,
                        grew |-> Len(dist_) < Len(r.dist) ]
    /\ UNCHANGED <<phase, edges_, bucket_>>
    /\ UNCHANGED dbvars
    /\ UNCHANGED loopvars
    /\ UNCHANGED twinvars

BulkNext ==
    \/ \E k \in BulkInputs : BulkAddEdge(k)
    \/ \E k \in BulkInputs : RemoveEdge(k)
    \/ Construct
    \/ Touch
    \/ \E t \in Targets : BulkAsk(t)

BulkSpec == Init /\ [][BulkNext]_vars

\* C19: bulk load through the store.  When edges were inserted (or removed)
\* with the methods of the store, before or after the engine was constructed,
\* and touch was called, the next ask recomputes and returns the answer of
\* the problem statement for the alive edges of the store; the label vectors
\* then cover every node the store addresses, the target and both ends of
\* every record, so that every access to them was inside bounds.
C19_BulkLoad ==
    (lastOp.op = "ask" /\ lastOp.prev = "touch") =>
        /\ lastOp.recomputed
        /\ lastOp.ret = Expected(edges_, adj_, lastOp.t)
        /\ Len(dist_) = Len(bestMax_)
        /\ Len(dist_) >= nodeCapacity(adj_) + 1
        /\ Len(dist_) > lastOp.t
        /\ Len(dist_) > S_
        /\ \A id \in 0 .. (edgeCount(edges_) - 1) :
              /\ edgeById(edges_, id).u < Len(dist_)
              /\ edgeById(edges_, id).v < Len(dist_)

\* an ASK right after touch on an engine whose label vectors were shorter
\* than the store (edges inserted through the store after the construction):
\* the target is reached by two paths of the same sum, and the answer is the
\* smaller of their bottlenecks
C19_Witness ==
    /\ lastOp.op = "ask"
    /\ lastOp.prev = "touch"
    /\ lastOp.grew
    /\ lastOp.recomputed
    /\ lastOp.t = 3
    /\ lastOp.ret = 2
    /\ \E l \in PathLabels(edges_, adj_, 3) : l = <<3, 3>>

(***************************************************************************)
(* InMemoryDB                                                              *)
(*                                                                         *)
(* A map is a function on the set of its keys; an optional<string> is a    *)
(* sequence of length 0 (nullopt) or 1.  D = [db, valCount, txnStack] is   *)
(* the object the methods work on.                                         *)
(***************************************************************************)

\* BEGIN is not issued when MaxTxnDepth transactions are open
MaxTxnDepth == 2


\* the keys and the values of the commands (the empty string is a value)
DbKeys == {"a", "b"}
DbVals == {"", "x"}

\* the commands stop storing a value once its count has reached the number of
\* keys (no correct count is larger)
MaxValCount == Cardinality(DbKeys)

\* m[k] = v of std::unordered_map
MapPut(m, k, v) == [x \in DOMAIN m \cup {k} |-> IF x = k THEN v ELSE m[x]]

\* m.erase(k)
MapErase(m, k) == [x \in DOMAIN m \ {k} |-> m[x]]

\* InMemoryDB::inc
inc(valCount, v) ==
    MapPut(valCount, v, (IF v \in DOMAIN valCount THEN valCount[v] ELSE 0) + 1)

\* InMemoryDB::dec
dec(valCount, v) ==
    IF v \notin DOMAIN valCount THEN valCount
    ELSE IF valCount[v] - 1 = 0 THEN MapErase(valCount, v)
    ELSE [valCount EXCEPT ![v] = @ - 1]

\* a faulty variant of record that logs under the outermost transaction
recordOutermost(txnStack, db, key) ==
    IF txnStack = <<>> THEN txnStack
    ELSE IF \E i \in 1 .. Len(txnStack[1]) : txnStack[1][i].key = key
    THEN txnStack
    ELSE [txnStack EXCEPT ![1] =
            Append(@, [key |-> key,
                       oldVal |-> IF key \in DOMAIN db THEN <<db[key]>> ELSE <<>>])]

\* InMemoryDB::record: txnStack_ after the call
record(txnStack, db, key) ==
    IF txnStack = <<>> THEN txnStack
    ELSE IF \E i \in 1 .. Len(txnStack[Len(txnStack)]) :
               txnStack[Len(txnStack)][i].key = key
    THEN txnStack
    ELSE [txnStack EXCEPT ![Len(txnStack)] =
            Append(@, [key |-> key,
                       oldVal |-> IF key \in DOMAIN db THEN <<db[key]>> ELSE <<>>])]

\* InMemoryDB::set
set(D, key, val) ==
    LET logged == record(D.txnStack, D.db, key) IN
    IF key \in DOMAIN D.db
    THEN IF D.db[key] = val
         THEN [db |-> D.db, valCount |-> D.valCount, txnStack |-> logged]
         ELSE [ db       |-> [D.db EXCEPT ![key] = val],
                valCount |-> inc(dec(D.valCount, D.db[key]), val),
                txnStack |-> logged ]
    ELSE [ db       |-> MapPut(D.db, key, val),
           valCount |-> inc(D.valCount, val),
           txnStack |-> logged ]

\* InMemoryDB::get
get(D, key) == IF key \in DOMAIN D.db THEN <<D.db[key]>> ELSE <<>>

\* InMemoryDB::del
del(D, key) ==
    IF key \notin DOMAIN D.db THEN D
    ELSE [ db       |-> MapErase(D.db, key),
           valCount |-> dec(D.valCount, D.db[key]),
           txnStack |-> record(D.txnStack, D.db, key) ]

\* InMemoryDB::count
count(D, val) == IF val \in DOMAIN D.valCount THEN D.valCount[val] ELSE 0

\* InMemoryDB::begin
begin(D) == [D EXCEPT !.txnStack = Append(@, <<>>)]

\* rollback, lines 267-283: the loop from log.rbegin(), entries i down to 1
RECURSIVE replay(_, _, _, _)
replay(db, valCount, log, i) ==
    IF i = 0 THEN [db |-> db, valCount |-> valCount]
    ELSE LET c       == log[i]
             current == IF c.key \in DOMAIN db THEN db[c.key] ELSE ""
             db1     == IF c.oldVal # <<>>
                        THEN MapPut(db, c.key, c.oldVal[1])
                        ELSE MapErase(db, c.key)
             vc1     == IF current # "" THEN dec(valCount, current) ELSE valCount
             vc2     == IF c.oldVal # <<>> THEN inc(vc1, c.oldVal[1]) ELSE vc1
         IN  replay(db1, vc2, log, i - 1)

\* InMemoryDB::rollback; the result carries the returned TxnStatus
rollback(D) ==
    IF D.txnStack = <<>>
    THEN [ db |-> D.db, valCount |-> D.valCount, txnStack |-> D.txnStack,
           status |-> "NoTransaction" ]
    ELSE LET log == D.txnStack[Len(D.txnStack)]
             r   == replay(D.db, D.valCount, log, Len(log))
         IN  [ db |-> r.db, valCount |-> r.valCount,
               txnStack |-> SubSeq(D.txnStack, 1, Len(D.txnStack) - 1),
               status |-> "Ok" ]

\* a faulty variant of commit that closes the innermost transaction only
commitInnermost(D) ==
    IF D.txnStack = <<>>
    THEN [ db |-> D.db, valCount |-> D.valCount, txnStack |-> D.txnStack,
           status |-> "NoTransaction" ]
    ELSE [ db |-> D.db, valCount |-> D.valCount,
           txnStack |-> SubSeq(D.txnStack, 1, Len(D.txnStack) - 1),
           status |-> "Ok" ]

\* a faulty variant of commit without the test for an empty stack
commitAlwaysOk(D) ==
    [ db |-> D.db, valCount |-> D.valCount, txnStack |-> <<>>, status |-> "Ok" ]

\* InMemoryDB::commit; the result carries the returned TxnStatus
commit(D) ==
    IF D.txnStack = <<>>
    THEN [ db |-> D.db, valCount |-> D.valCount, txnStack |-> D.txnStack,
           status |-> "NoTransaction" ]
    ELSE [ db |-> D.db, valCount |-> D.valCount, txnStack |-> <<>>,
           status |-> "Ok" ]

\* the InMemoryDB object
DbD == [db |-> db_, valCount |-> valCount_, txnStack |-> txnStack_]

\* db.set(k, v)
DbSet(k, v) ==
    /\ count(DbD, v) < MaxValCount
    /\ LET D == set(DbD, k, v) IN
         /\ db_' = D.db
         /\ valCount_' = D.valCount
         /\ txnStack_' = D.txnStack
    /\ dbLast' = [op |-> "set", status |-> "none", undone |-> 0, closed |-> 0]
    /\ UNCHANGED atBegin
    /\ UNCHANGED vars
    /\ UNCHANGED loopvars
    /\ UNCHANGED twinvars

\* db.del(k)
DbDel(k) ==
    /\ LET D == del(DbD, k) IN
         /\ db_' = D.db
         /\ valCount_' = D.valCount
         /\ txnStack_' = D.txnStack
    /\ dbLast' = [op |-> "del", status |-> "none", undone |-> 0, closed |-> 0]
    /\ UNCHANGED atBegin
    /\ UNCHANGED vars
    /\ UNCHANGED loopvars
    /\ UNCHANGED twinvars

\* db.begin()
DbBegin ==
    /\ Len(txnStack_) < MaxTxnDepth
    /\ txnStack_' = begin(DbD).txnStack
    /\ atBegin' = Append(atBegin, db_)
    /\ dbLast' = [op |-> "begin", status |-> "none", undone |-> 0, closed |-> 0]
    /\ UNCHANGED <<db_, valCount_>>
    /\ UNCHANGED vars
    /\ UNCHANGED loopvars
    /\ UNCHANGED twinvars

\* db.rollback(); undone is the number of log entries it replayed, closed the
\* number of transactions it closed
DbRollback ==
    /\ LET D == rollback(DbD) IN
         /\ db_' = D.db
         /\ valCount_' = D.valCount
         /\ txnStack_' = D.txnStack
         /\ atBegin' = IF D.status = "Ok"
                       THEN SubSeq(atBegin, 1, Len(atBegin) - 1)
                       ELSE atBegin
         /\ dbLast' = [ op |-> "rollback", status |-> D.status,
                        closed |-> Len(txnStack_) - Len(D.txnStack),
                        undone |-> IF D.status = "Ok"
                                   THEN Len(txnStack_[Len(txnStack_)]) ELSE 0 ]
    /\ UNCHANGED vars
    /\ UNCHANGED loopvars
    /\ UNCHANGED twinvars

\* db.commit()
DbCommit ==
    /\ LET D == commit(DbD) IN
         /\ db_' = D.db
         /\ valCount_' = D.valCount
         /\ txnStack_' = D.txnStack
         /\ atBegin' = IF D.status = "Ok" THEN <<>> ELSE atBegin
         /\ dbLast' = [ op |-> "commit", status |-> D.status, undone |-> 0,
                        closed |-> Len(txnStack_) - Len(D.txnStack) ]
    /\ UNCHANGED vars
    /\ UNCHANGED loopvars
    /\ UNCHANGED twinvars

DbNext ==
    \/ \E k \in DbKeys, v \in DbVals : DbSet(k, v)
    \/ \E k \in DbKeys : DbDel(k)
    \/ DbBegin
    \/ DbRollback
    \/ DbCommit

DbSpec == Init /\ [][DbNext]_dbvars

\* C20: rollback with an open transaction returns Ok, closes exactly the
\* innermost open transaction (the outer ones stay open with their logs) and
\* leaves the key -> value map exactly as it was when the begin of that
\* transaction was called, whatever set, del and rolled back nested
\* transactions came in between.
C20_RollbackRestores ==
    [][ (dbLast'.op = "rollback" /\ txnStack_ # <<>>) =>
          /\ dbLast'.status = "Ok"
          /\ Len(atBegin) = Len(txnStack_)
          /\ db_' = atBegin[Len(atBegin)]
          /\ txnStack_' = SubSeq(txnStack_, 1, Len(txnStack_) - 1) ]_dbvars

\* a rollback of the inner of two transactions that undid changes of both
\* keys and left the outer transaction open with changes of its own
C20_Witness ==
    /\ dbLast.op = "rollback"
    /\ dbLast.status = "Ok"
    /\ dbLast.undone = 2
    /\ Len(txnStack_) = 1
    /\ Len(txnStack_[1]) = 2
    /\ db_ # atBegin[1]

\* C21: commit with an open transaction returns Ok, closes every open level
\* at once and keeps every change: the key -> value map and the counts are
\* the ones before the call, so get returns the latest written value of every
\* key; the rollback or commit that directly follows returns NoTransaction.
C21_CommitKeepsAll ==
    [][ /\ (dbLast'.op = "commit" /\ txnStack_ # <<>>) =>
             /\ dbLast'.status = "Ok"
             /\ txnStack_' = <<>>
             /\ db_' = db_
             /\ valCount_' = valCount_
             /\ \A k \in DbKeys : get(DbD', k) = get(DbD, k)
        /\ ( /\ dbLast.op = "commit"
             /\ dbLast.status = "Ok"
             /\ dbLast'.op \in {"rollback", "commit"} ) =>
             /\ dbLast'.status = "NoTransaction"
             /\ db_' = db_ ]_dbvars

\* a commit that closed two nested transactions at once and kept changes of
\* both keys that differ from the map at either begin
C21_Witness ==
    /\ dbLast.op = "commit"
    /\ dbLast.status = "Ok"
    /\ dbLast.closed = 2
    /\ DOMAIN db_ = DbKeys
    /\ db_["a"] # db_["b"]

\* C22: rollback and commit called with no open transaction return
\* NoTransaction and change neither the key -> value map, nor the value
\* counts, nor the (empty) transaction stack.
C22_NoTransaction ==
    [][ (dbLast'.op \in {"rollback", "commit"} /\ txnStack_ = <<>>) =>
          /\ dbLast'.status = "NoTransaction"
          /\ db_' = db_
          /\ valCount_' = valCount_
          /\ txnStack_' = <<>> ]_dbvars

\* a commit refused on a database that holds a key, right after a commit that
\* succeeded or any other call
C22_Witness ==
    /\ dbLast.op = "commit"
    /\ dbLast.status = "NoTransaction"
    /\ dbLast.closed = 0
    /\ txnStack_ = <<>>
    /\ db_ # <<>>

\* the number of keys whose current value is v
KeysHolding(v) == Cardinality({k \in DOMAIN db_ : db_[k] = v})

\* C23: in every reachable state count(v) is the number of keys whose current
\* value is v, for every value v, the empty string included.
C23_CountMatches ==
    \A v \in DbVals : count(DbD, v) = KeysHolding(v)

\* C23, values other than the empty string: their counts are exact
C23_NonEmptyCounts ==
    \A v \in DbVals \ {""} : count(DbD, v) = KeysHolding(v)

(***************************************************************************)
(* The recompute, one statement at a time.                                 *)
(*                                                                         *)
(* Under LoopSpec an ask on a dirty engine is taken in steps: the          *)
(* statements before the while loop, each pop with its stale test, each    *)
(* iteration of the for loop over the out-edges, and the statements after  *)
(* the loop.  The commands between two asks are taken as a whole.          *)
(***************************************************************************)

\* a faulty variant of Stale that compares the distances only
StaleDistOnly(c, dist, bestMax) == c.dist # dist[c.v + 1]

\* recompute, lines 120-123: the dequeued item no longer is the label of its node
Stale(c, dist, bestMax) ==
    c.dist # dist[c.v + 1] \/ c.bottleneck # bestMax[c.v + 1]

\* a faulty variant of NextEdge: the for loop does not advance
SameEdge(i) == i

\* recompute, line 126: the for loop moves to the next id of outEdges(cur.v)
NextEdge(i) == i + 1

\* the edge the for loop is at
LoopEdge == edgeById(edges_, outEdges(adj_, loopCur.v)[eidx])

\* removeEdgeCmd between two asks
LoopRemoveEdgeCmd(k) ==
    /\ pc = "idle"
    /\ RemoveEdgeCmd(k)

\* ask(t) on an engine whose labels are valid: no recompute
AskClean(t) ==
    /\ pc = "idle"
    /\ ~dirty_
    /\ Ask(t)

\* ask(t) on a dirty engine, line 86 and recompute up to the while loop
\* (lines 105-114)
AskBegin(t) ==
    /\ phase = "run"
    /\ pc = "idle"
    /\ dirty_
    /\ LET g0 == growToInclude(adj_, dist_, bestMax_, t)
           g1 == growToInclude(g0.adj, g0.dist, g0.bestMax, nodeCapacity(g0.adj))
           g2 == growToInclude(g1.adj, Fill(Len(g1.dist), INF),
                               Fill(Len(g1.bestMax), IntMax), S_)
       IN  /\ adj_' = g2.adj
           /\ dist_' = [g2.dist EXCEPT ![S_ + 1] = 0]
           /\ bestMax_' = [g2.bestMax EXCEPT ![S_ + 1] = 0]
    /\ loopPq' = << [dist |-> 0, bottleneck |-> 0, v |-> S_] >>
    /\ pc' = "loop"
    /\ askT' = t
    /\ popped' = <<>>
    /\ UNCHANGED <<phase, edges_, bucket_, dirty_, lastOp, loopCur, eidx>>
    /\ UNCHANGED dbvars
    /\ UNCHANGED twinvars

\* recompute, lines 116-123: one pop and the stale test
LoopPop ==
    /\ pc = "loop"
    /\ loopPq # <<>>
    /\ LET i == TopIndex(loopPq)
           c == loopPq[i]
       IN  /\ loopCur' = c
           /\ loopPq' = PopAt(loopPq, i)
           /\ IF Stale(c, dist_, bestMax_)
              THEN /\ pc' = "loop"
                   /\ popped' = Append(popped, [item |-> c, stale |-> TRUE])
                   /\ UNCHANGED eidx
              ELSE /\ pc' = "scan"
                   /\ popped' = Append(popped, [item |-> c, stale |-> FALSE])
                   /\ eidx' = 1
    /\ UNCHANGED askT
    /\ UNCHANGED vars
    /\ UNCHANGED dbvars
    /\ UNCHANGED twinvars

\* recompute, lines 126-139: one iteration of the for loop
LoopRelax ==
    /\ pc = "scan"
    /\ eidx <= Len(outEdges(adj_, loopCur.v))
    /\ eidx' = NextEdge(eidx)
    /\ LET e  == LoopEdge
           nd == loopCur.dist + e.w
           nb == Max(loopCur.bottleneck, e.w)
       IN  IF Scanned(e) /\ Accept(nd, nb, dist_[e.v + 1], bestMax_[e.v + 1])
           THEN /\ dist_' = [dist_ EXCEPT ![e.v + 1] = nd]
                /\ bestMax_' = [bestMax_ EXCEPT ![e.v + 1] = nb]
                /\ loopPq' = Append(loopPq,
                                    [dist |-> nd, bottleneck |-> nb, v |-> e.v])
           ELSE UNCHANGED <<dist_, bestMax_, loopPq>>
    /\ UNCHANGED <<phase, edges_, adj_, bucket_, dirty_, lastOp>>
    /\ UNCHANGED <<pc, loopCur, askT, popped>>
    /\ UNCHANGED dbvars
    /\ UNCHANGED twinvars

\* recompute, line 126: the for loop is over
LoopScanEnd ==
    /\ pc = "scan"
    /\ eidx > Len(outEdges(adj_, loopCur.v))
    /\ pc' = "loop"
    /\ UNCHANGED <<loopPq, loopCur, eidx, askT, popped>>
    /\ UNCHANGED vars
    /\ UNCHANGED dbvars
    /\ UNCHANGED twinvars

\* recompute, lines 116 and 142, and the return of ask (lines 88-90)
AskEnd ==
    /\ pc = "loop"
    /\ loopPq = <<>>
    /\ dirty_' = FALSE
    /\ pc' = "idle"
    /\ lastOp' = Op("ask", <<>>, askT, FALSE,
                    IF dist_[askT + 1] = INF THEN -1 ELSE bestMax_[askT + 1],
                    TRUE, lastOp.op = "new")
    /\ UNCHANGED <<phase, edges_, adj_, bucket_, dist_, bestMax_>>
    /\ UNCHANGED <<loopPq, loopCur, eidx, askT, popped>>
    /\ UNCHANGED dbvars
    /\ UNCHANGED twinvars

LoopStep == LoopPop \/ LoopRelax \/ LoopScanEnd \/ AskEnd

LoopNext ==
    \/ \E k \in EdgeInputs : LoadEdge(k)
    \/ Construct
    \/ \E k \in EdgeInputs : LoopRemoveEdgeCmd(k)
    \/ \E t \in Targets : AskClean(t)
    \/ \E t \in Targets : AskBegin(t)
    \/ LoopPop
    \/ LoopRelax
    \/ LoopScanEnd
    \/ AskEnd

LoopSpec == Init /\ [][LoopNext]_<<vars, loopvars>>

\* an ask taken in steps leaves the engine as the ask taken as a whole does
LoopAgrees ==
    (pc = "idle" /\ lastOp.op = "ask" /\ lastOp.recomputed) =>
        LET r == Traverse(edges_, adj_, dist_, bestMax_) IN
        /\ dist_ = r.dist
        /\ bestMax_ = r.bestMax
        /\ adj_ = r.adj
        /\ ~dirty_

\* (d1, b1) is strictly smaller than (d2, b2) in lexicographic order
LexLess(d1, b1, d2, b2) == d1 < d2 \/ (d1 = d2 /\ b1 < b2)

\* the step is one iteration of the for loop
Relaxed == pc = "scan" /\ eidx' = eidx + 1

\* C24: in an iteration of the for loop over an alive edge (u, v, w) the
\* candidate (d + w, max(b, w)) replaces the label of v if and only if it is
\* strictly smaller than that label in lexicographic (distance, bottleneck)
\* order; an item (candidate, v) is pushed exactly when the label is
\* replaced, no other label changes, and so no label of a node ever grows
\* during a recompute.
C24_AcceptRule ==
    [][ /\ Relaxed =>
             LET e  == LoopEdge
                 nd == loopCur.dist + e.w
                 nb == Max(loopCur.bottleneck, e.w)
                 better == e.alive /\ LexLess(nd, nb, dist_[e.v + 1], bestMax_[e.v + 1])
             IN  /\ better =>
                       /\ dist_'[e.v + 1] = nd
                       /\ bestMax_'[e.v + 1] = nb
                       /\ loopPq' = Append(loopPq,
                                       [dist |-> nd, bottleneck |-> nb, v |-> e.v])
                 /\ ~better => /\ dist_' = dist_
                               /\ bestMax_' = bestMax_
                               /\ loopPq' = loopPq
                 /\ \A n \in 1 .. Len(dist_) :
                       n # e.v + 1 => /\ dist_'[n] = dist_[n]
                                      /\ bestMax_'[n] = bestMax_[n]
        /\ (pc # "idle" /\ pc' # "idle") =>
             /\ Len(dist_') = Len(dist_)
             /\ \A n \in 1 .. Len(dist_) :
                   \/ /\ dist_'[n] = dist_[n]
                      /\ bestMax_'[n] = bestMax_[n]
                   \/ LexLess(dist_'[n], bestMax_'[n], dist_[n], bestMax_[n])
             /\ (Len(loopPq') > Len(loopPq)) = (<<dist_', bestMax_'>> # <<dist_, bestMax_>>)
      ]_<<vars, loopvars>>

\* a label was replaced by one of the same distance and a smaller bottleneck:
\* the queue holds both items, the later one is the label
C24_Witness ==
    /\ pc = "scan"
    /\ \E i, j \in 1 .. Len(loopPq) :
          /\ i < j
          /\ loopPq[i].v = loopPq[j].v
          /\ loopPq[i].dist = loopPq[j].dist
          /\ loopPq[j].bottleneck < loopPq[i].bottleneck
          /\ dist_[loopPq[j].v + 1] = loopPq[j].dist
          /\ bestMax_[loopPq[j].v + 1] = loopPq[j].bottleneck

\* the positions in popped of the items that were expanded
ExpandedAt(pp) == {i \in 1 .. Len(pp) : ~pp[i].stale}

\* the step is a pop
Popped == pc = "loop" /\ Len(popped') = Len(popped) + 1

\* C25: a dequeued item is expanded only when its (distance, bottleneck) is the
\* current label of its node, and dropped otherwise; the label of a node that
\* was expanded stays what it was at the expansion until the recompute is
\* over, so no node is expanded twice in a recompute (its out-edges are
\* scanned at most once), and the expanded items come out of the queue in
\* non-decreasing lexicographic (distance, bottleneck) order.
C25_LazyDeletion ==
    [][ /\ Popped =>
             LET c == loopCur' IN
             /\ c = loopPq[TopIndex(loopPq)]
             /\ (pc' = "scan") = (c.dist = dist_[c.v + 1] /\ c.bottleneck = bestMax_[c.v + 1])
             /\ popped'[Len(popped')].stale = (pc' = "loop")
        /\ LET pp == popped' IN
           /\ \A i \in ExpandedAt(pp) :
                 /\ dist_'[pp[i].item.v + 1] = pp[i].item.dist
                 /\ bestMax_'[pp[i].item.v + 1] = pp[i].item.bottleneck
           /\ \A i, j \in ExpandedAt(pp) :
                 i < j => /\ pp[i].item.v # pp[j].item.v
                          /\ ~LexLess(pp[j].item.dist, pp[j].item.bottleneck,
                                      pp[i].item.dist, pp[i].item.bottleneck)
      ]_<<vars, loopvars>>

\* a finished recompute that expanded three nodes and dropped a stale item
C25_Witness ==
    /\ pc = "idle"
    /\ lastOp.op = "ask"
    /\ lastOp.recomputed
    /\ Cardinality(ExpandedAt(popped)) = 3
    /\ \E i \in 1 .. Len(popped) : popped[i].stale

\* The statements of a running recompute are taken one after the other: the
\* call is sequential code that nothing preempts for ever.
LoopFairSpec == LoopSpec /\ WF_<<vars, loopvars>>(LoopStep)

\* the labels of the nodes the recompute did not expand
Unreached(n) == \A i \in ExpandedAt(popped) : popped[i].item.v # n

\* C26: every recompute terminates: once an ask has started one, the queue
\* eventually is empty and the call returns; then dirty_ is false and every
\* node that was not reached, none of whose paths from S_ is alive, still has
\* the infinite distance.
C26_RecomputeTerminates ==
    (pc # "idle") ~>
        ( /\ pc = "idle"
          /\ loopPq = <<>>
          /\ ~dirty_
          /\ \A n \in 0 .. Len(dist_) - 1 :
                (Unreached(n) \/ ~Reachable(edges_, adj_, n)) =>
                    (dist_[n + 1] = INF /\ Unreached(n)) )

\* a recompute that ended on a store with a zero-weight self-loop, a dead
\* edge and a node left at the infinite distance
C26_Witness ==
    /\ pc = "idle"
    /\ lastOp.op = "ask"
    /\ lastOp.recomputed
    /\ ~dirty_
    /\ \E i \in 1 .. Len(edges_) :
          edges_[i].alive /\ edges_[i].u = edges_[i].v /\ edges_[i].w = 0
          /\ ~Unreached(edges_[i].u)
    /\ \E i \in 1 .. Len(edges_) : ~edges_[i].alive
    /\ \E n \in 1 .. Len(dist_) - 1 : dist_[n + 1] = INF

(***************************************************************************)
(* History independence.                                                   *)
(***************************************************************************)

\* the triples of the alive edges, in the order of their ids
AliveTriples(edges) ==
    LET RECURSIVE Take(_)
        Take(i) == IF i = 0 THEN <<>>
                   ELSE IF edges[i].alive THEN Append(Take(i - 1), TripleOf(edges[i]))
                   ELSE Take(i - 1)
    IN  Take(Len(edges))

\* a fixed total order on triples
TripleLeq(a, b) ==
    \/ a[1] < b[1]
    \/ a[1] = b[1] /\ a[2] < b[2]
    \/ a[1] = b[1] /\ a[2] = b[2] /\ a[3] <= b[3]

\* the triples of a sequence in that order, each as often as it occurs
RECURSIVE SortTriples(_)
SortTriples(ts) ==
    IF ts = <<>> THEN <<>>
    ELSE LET rest == SortTriples(Tail(ts))
             x    == Head(ts)
             n    == Cardinality({i \in 1 .. Len(rest) : ~TripleLeq(x, rest[i])})
         IN  SubSeq(rest, 1, n) \o <<x>> \o SubSeq(rest, n + 1, Len(rest))

\* DynamicDirectedGraph graph(N) followed by graph.addEdge of each triple
RECURSIVE StoreOf(_)
StoreOf(ts) ==
    IF ts = <<>>
    THEN [edges |-> <<>>, adj |-> Fill(NInitial + 1, <<>>), bucket |-> [k \in {} |-> <<>>]]
    ELSE LET g == addEdge(StoreOf(SubSeq(ts, 1, Len(ts) - 1)),
                          ts[Len(ts)][1], ts[Len(ts)][2], ts[Len(ts)][3])
         IN  [edges |-> g.edges, adj |-> g.adj, bucket |-> g.bucket]

\* ask(t) of a new engine on a new store that holds the alive edges of the
\* given one and nothing else, inserted in the fixed order: a function of the
\* multiset of alive triples
CanonAnswer(edges, t) ==
    LET g == StoreOf(SortTriples(AliveTriples(edges)))
        e == LexiSSSP(g.adj)
    IN  ask(g.edges, g.adj, e.dist, e.bestMax, e.dirty, t).ret

\* C27: what ask(t) returns depends on the multiset of alive triples only (so
\* two engines of the same source on stores with the same alive multiset
\* agree): in every state it is what a new engine answers on a new store
\* loaded with the alive triples in a fixed order, whatever the order of the
\* insertions was, whatever dead edges the adjacency sequences hold and
\* whatever labels an earlier recompute left.
C27_HistoryIndependent ==
    phase = "run" =>
        \A t \in Targets : AnswerOf(t) = CanonAnswer(edges_, t)

\* an ask that recomputed over labels cached by an earlier recompute, on a
\* store with a dead edge whose alive edges were not inserted in the fixed
\* order, and found the target
C27_Witness ==
    /\ lastOp.op = "ask"
    /\ lastOp.recomputed
    /\ ~lastOp.first
    /\ lastOp.ret # -1
    /\ \E i \in 1 .. Len(edges_) : ~edges_[i].alive
    /\ AliveTriples(edges_) # SortTriples(AliveTriples(edges_))
    /\ \E n \in 1 .. Len(dist_) : dist_[n] = INF

(***************************************************************************)
(* Cache coherence.                                                        *)
(***************************************************************************)

\* the true lexicographic label of node n for the alive edges of the store;
\* <<INF, IntMax>> for a node no alive path from S_ reaches
TrueLabel(n) ==
    IF Reachable(edges_, adj_, n)
    THEN <<TrueDist(edges_, adj_, n), TrueBottleneck(edges_, adj_, n)>>
    ELSE <<INF, IntMax>>

\* C28: under Spec every mutation of the store goes through addEdgeCmd or
\* removeEdgeCmd of the engine.  Whenever dirty_ is false, the cached
\* (dist_, bestMax_) of every node within the label vectors is the true
\* lexicographic label for the alive edges, infinite for the nodes that are
\* not reachable, the ones a later growth appended included.
C28_CacheCoherent ==
    (phase = "run" /\ ~dirty_) =>
        /\ Len(bestMax_) = Len(dist_)
        /\ \A n \in 0 .. Len(dist_) - 1 :
              <<dist_[n + 1], bestMax_[n + 1]>> = TrueLabel(n)

\* a valid cache, on a store with a dead edge, that holds the label of a
\* node reached from S_ and the infinite label of the node of an ask that
\* did not recompute, a node that no edge record names
C28_Witness ==
    /\ phase = "run"
    /\ ~dirty_
    /\ lastOp.op = "ask"
    /\ ~lastOp.recomputed
    /\ lastOp.ret = -1
    /\ lastOp.t = Len(dist_) - 1
    /\ \A i \in 1 .. Len(edges_) : edges_[i].u # lastOp.t /\ edges_[i].v # lastOp.t
    /\ \E i \in 1 .. Len(edges_) : ~edges_[i].alive
    /\ \E n \in 1 .. Len(dist_) : dist_[n] # INF /\ dist_[n] > 0

(***************************************************************************)
(* The buckets and the alive flags of the store.                           *)
(***************************************************************************)

\* the bucket of every triple holds exactly the ids of the alive records of
\* that triple, each once, in increasing order; a triple without a bucket has
\* no alive record
BucketExact(edges, bucket) ==
    /\ \A key \in DOMAIN bucket :
          LET b == bucket[key] IN
          /\ \A j \in 1 .. Len(b) :
                /\ b[j] \in 0 .. Len(edges) - 1
                /\ edges[b[j] + 1].alive
                /\ TripleOf(edges[b[j] + 1]) = key
          /\ \A j, k \in 1 .. Len(b) : j < k => b[j] < b[k]
    /\ \A i \in 1 .. Len(edges) :
          edges[i].alive =>
              /\ TripleOf(edges[i]) \in DOMAIN bucket
              /\ \E j \in 1 .. Len(bucket[TripleOf(edges[i])]) :
                    bucket[TripleOf(edges[i])][j] = i - 1

\* the positions of the records whose flag the step cleared
Cleared == {i \in 1 .. Len(edges_) : edges_[i].alive /\ ~edges_'[i].alive}

\* C29: after every call the bucket of each triple holds exactly the ids of
\* the alive edges of that triple, each once and in increasing order; a
\* removal that succeeds clears the flag of exactly one record, a record that
\* was alive, and its id is in no bucket afterwards, so no later removal
\* targets it.
C29_BucketInvariant ==
    [][ /\ BucketExact(edges_', bucket_')
        /\ (lastOp'.op \in {"removeEdge", "rem"} /\ edges_' # edges_) =>
              /\ Cardinality(Cleared) = 1
              /\ \A i \in 1 .. Len(edges_) : i \notin Cleared => edges_'[i] = edges_[i]
              /\ \A i \in Cleared : \A key \in DOMAIN bucket_' :
                    \A j \in 1 .. Len(bucket_'[key]) : bucket_'[key][j] # i - 1
      ]_vars

\* two removals of a triple that was added twice: the second one took the
\* other id, both records are dead and the bucket is empty
C29_Witness ==
    /\ lastOp.op = "removeEdge"
    /\ lastOp.removed
    /\ Len(edges_) = 2
    /\ TripleOf(edges_[1]) = TripleOf(edges_[2])
    /\ ~edges_[1].alive
    /\ ~edges_[2].alive
    /\ bucket_[lastOp.key] = <<>>

\* C30: a record whose alive flag is false keeps it false (and keeps its
\* triple) in every later state; adding the triple of a removed edge again
\* appends a new record whose id is larger than every id issued before and
\* leaves the removed record as it is.
C30_NeverRevived ==
    [][ /\ Len(edges_') >= Len(edges_)
        /\ \A i \in 1 .. Len(edges_) : ~edges_[i].alive => edges_'[i] = edges_[i]
        /\ (lastOp'.op = "addEdge" /\ <<edges_, lastOp>>' # <<edges_, lastOp>>) =>
              /\ Len(edges_') = Len(edges_) + 1
              /\ lastOp'.id = Len(edges_)
              /\ edges_'[Len(edges_')] =
                    [ u |-> lastOp'.key[1], v |-> lastOp'.key[2],
                      w |-> lastOp'.key[3], alive |-> TRUE ]
              /\ \A i \in 1 .. Len(edges_) : edges_'[i] = edges_[i]
      ]_vars

\* the triple of a removed edge was added again: the old record is still
\* dead and the new one has the next id
C30_Witness ==
    /\ lastOp.op = "addEdge"
    /\ Len(edges_) = 2
    /\ lastOp.id = 1
    /\ TripleOf(edges_[1]) = lastOp.key
    /\ ~edges_[1].alive
    /\ edges_[2].alive
    /\ TripleOf(edges_[2]) = lastOp.key
    /\ bucket_[lastOp.key] = <<1>>

(***************************************************************************)
(* Two engines bound to one store.                                         *)
(*                                                                         *)
(* Under TwinSpec two LexiSSSP objects of the same source hold a reference *)
(* to the same DynamicDirectedGraph.  The calls on the first engine are    *)
(* the actions above; the calls on the second one are the same code on     *)
(* dist2_, bestMax2_ and dirty2_, recorded in lastOp as add2, rem2, touch2 *)
(* and ask2.                                                               *)
(***************************************************************************)

\* the arguments of ask under TwinSpec
TwinTargets == {2, 3}

\* LexiSSSP engine(graph, S) twice on the same graph
ConstructTwin ==
    /\ phase = "load"
    /\ phase' = "run"
    /\ lastOp' = Op("new", <<>>, -1, FALSE, -1, FALSE, FALSE)
    /\ LET e == LexiSSSP(adj_) IN
         /\ dist_' = e.dist
         /\ bestMax_' = e.bestMax
         /\ dirty_' = e.dirty
         /\ dist2_' = e.dist
         /\ bestMax2_' = e.bestMax
         /\ dirty2_' = e.dirty
    /\ UNCHANGED <<edges_, adj_, bucket_>>
    /\ UNCHANGED dbvars
    /\ UNCHANGED loopvars

\* LexiSSSP::addEdgeCmd on the first engine (AddEdgeCmd without the
\* observations distsBefore and answersBefore)
AddEdgeCmd1(k) ==
    /\ phase = "run"
    /\ Len(edges_) < MaxStoreEdges
    /\ lastOp' = Op("add", <<>>, -1, FALSE, -1, FALSE, FALSE)
    /\ LET g  == addEdge(Store, k[1], k[2], k[3])
           gr == growToInclude(g.adj, dist_, bestMax_, Max(k[1], k[2]))
       IN  /\ edges_' = g.edges
           /\ bucket_' = g.bucket
           /\ adj_' = gr.adj
           /\ dist_' = gr.dist
           /\ bestMax_' = gr.bestMax
    /\ dirty_' = TRUE
    /\ UNCHANGED phase
    /\ UNCHANGED dbvars
    /\ UNCHANGED loopvars
    /\ UNCHANGED twinvars

\* a faulty variant of AddEdgeCmd2 that also marks the first engine dirty, as
\* if the flag belonged to the store
AddEdgeCmd2Shared(k) ==
    /\ phase = "run"
    /\ Len(edges_) < MaxStoreEdges
    /\ lastOp' = Op("add2", <<>>, -1, FALSE, -1, FALSE, FALSE)
    /\ LET g  == addEdge(Store, k[1], k[2], k[3])
           gr == growToInclude(g.adj, dist2_, bestMax2_, Max(k[1], k[2]))
       IN  /\ edges_' = g.edges
           /\ bucket_' = g.bucket
           /\ adj_' = gr.adj
           /\ dist2_' = gr.dist
           /\ bestMax2_' = gr.bestMax
    /\ dirty2_' = TRUE
    /\ dirty_' = TRUE
    /\ UNCHANGED <<phase, dist_, bestMax_>>
    /\ UNCHANGED dbvars
    /\ UNCHANGED loopvars

\* LexiSSSP::addEdgeCmd on the second engine
AddEdgeCmd2(k) ==
    /\ phase = "run"
    /\ Len(edges_) < MaxStoreEdges
    /\ lastOp' = Op("add2", <<>>, -1, FALSE, -1, FALSE, FALSE)
    /\ LET g  == addEdge(Store, k[1], k[2], k[3])
           gr == growToInclude(g.adj, dist2_, bestMax2_, Max(k[1], k[2]))
       IN  /\ edges_' = g.edges
           /\ bucket_' = g.bucket
           /\ adj_' = gr.adj
           /\ dist2_' = gr.dist
           /\ bestMax2_' = gr.bestMax
    /\ dirty2_' = TRUE
    /\ UNCHANGED <<phase, dist_, bestMax_, dirty_>>
    /\ UNCHANGED dbvars
    /\ UNCHANGED loopvars

\* LexiSSSP::removeEdgeCmd on the second engine
RemoveEdgeCmd2(k) ==
    /\ phase = "run"
    /\ LET g == removeEdge(Store, k[1], k[2], k[3]) IN
         /\ edges_' = g.edges
         /\ adj_' = g.adj
         /\ bucket_' = g.bucket
         /\ dirty2_' = MarkIfRemoved(g.ret, dirty2_)
         /\ lastOp' = Op("rem2", IF g.ret THEN k ELSE <<>>, -1, g.ret, -1,
                         FALSE, FALSE)
    /\ UNCHANGED <<phase, dist_, bestMax_, dirty_, dist2_, bestMax2_>>
    /\ UNCHANGED dbvars
    /\ UNCHANGED loopvars

\* LexiSSSP::touch on the second engine
Touch2 ==
    /\ phase = "run"
    /\ dirty2_' = TRUE
    /\ lastOp' = Op("touch2", <<>>, -1, FALSE, -1, FALSE, FALSE)
    /\ UNCHANGED <<phase, edges_, adj_, bucket_, dist_, bestMax_, dirty_>>
    /\ UNCHANGED <<dist2_, bestMax2_>>
    /\ UNCHANGED dbvars
    /\ UNCHANGED loopvars

\* LexiSSSP::ask on the second engine
Ask2(t) ==
    /\ phase = "run"
    /\ LET r == ask(edges_, adj_, dist2_, bestMax2_, dirty2_, t) IN
         /\ adj_' = r.adj
         /\ dist2_' = r.dist
         /\ bestMax2_' = r.bestMax
         /\ dirty2_' = r.dirty
         /\ lastOp' = Op("ask2", <<>>, t, FALSE, r.ret, r.recomputed, FALSE)
    /\ UNCHANGED <<phase, edges_, bucket_, dist_, bestMax_, dirty_>>
    /\ UNCHANGED dbvars
    /\ UNCHANGED loopvars

TwinNext ==
    \/ ConstructTwin
    \/ \E k \in StoreInputs : AddEdgeCmd1(k)
    \/ \E k \in StoreInputs : RemoveEdgeCmd(k)
    \/ Touch
    \/ \E t \in TwinTargets : Ask(t)
    \/ \E k \in StoreInputs : AddEdgeCmd2(k)
    \/ \E k \in StoreInputs : RemoveEdgeCmd2(k)
    \/ Touch2
    \/ \E t \in TwinTargets : Ask2(t)

TwinSpec == Init /\ [][TwinNext]_<<vars, twinvars>>

\* what ask(t) returns from cached labels dist, bestMax without a recompute
CachedAnswer(dist, bestMax, t) ==
    IF t + 1 <= Len(dist) /\ dist[t + 1] # INF THEN bestMax[t + 1] ELSE -1

\* vec is kept as the front of vec2
KeptIn(vec, vec2) ==
    Len(vec2) >= Len(vec) /\ SubSeq(vec2, 1, Len(vec)) = vec

\* C31: with two engines on one store, addEdgeCmd and removeEdgeCmd of one
\* engine leave the other engine's dirty flag and cached labels as they are
\* and change of their own engine only the dirty flag (the label vectors may
\* grow, their entries stay); an engine whose flag is false answers ask from
\* the labels of its last recompute, without a recompute, whatever the other
\* engine did to the store in between.
C31_IndependentCaches ==
    [][ /\ lastOp'.op \in {"add", "rem"} =>
              /\ UNCHANGED <<dist2_, bestMax2_, dirty2_>>
              /\ KeptIn(dist_, dist_') /\ KeptIn(bestMax_, bestMax_')
        /\ lastOp'.op \in {"add2", "rem2"} =>
              /\ UNCHANGED <<dist_, bestMax_, dirty_>>
              /\ KeptIn(dist2_, dist2_') /\ KeptIn(bestMax2_, bestMax2_')
        /\ lastOp'.op = "add" => dirty_'
        /\ lastOp'.op = "add2" => dirty2_'
        /\ (lastOp'.op = "ask" /\ ~dirty_) =>
              /\ ~lastOp'.recomputed
              /\ lastOp'.ret = CachedAnswer(dist_, bestMax_, lastOp'.t)
              /\ KeptIn(dist_, dist_') /\ KeptIn(bestMax_, bestMax_')
              /\ UNCHANGED <<dist2_, bestMax2_, dirty2_>>
        /\ (lastOp'.op = "ask2" /\ ~dirty2_) =>
              /\ ~lastOp'.recomputed
              /\ lastOp'.ret = CachedAnswer(dist2_, bestMax2_, lastOp'.t)
              /\ KeptIn(dist2_, dist2_') /\ KeptIn(bestMax2_, bestMax2_')
              /\ UNCHANGED <<dist_, bestMax_, dirty_>>
      ]_<<vars, twinvars>>

\* the first engine changed the store and is dirty; the second engine, whose
\* flag is still false, answered an ask from its old labels with a value that
\* is not the answer for the store as it is now
C31_Witness ==
    /\ lastOp.op = "ask2"
    /\ ~lastOp.recomputed
    /\ dirty_
    /\ ~dirty2_
    /\ lastOp.ret # Expected(edges_, adj_, lastOp.t)
    /\ lastOp.ret # -1

(***************************************************************************)
(* What ask does to the store.                                             *)
(*                                                                         *)
(* FrameSpec: a store of capacity NInitial, an engine of source S_, the    *)
(* commands of the engine, and ask for targets below, at and above S_.     *)
(***************************************************************************)

\* the arguments of ask under FrameSpec
FrameTargets == {0, S_, 3}

FrameNext ==
    \/ Construct
    \/ \E k \in StoreInputs : AddEdgeCmd1(k)
    \/ \E k \in StoreInputs : RemoveEdgeCmd(k)
    \/ Touch
    \/ \E t \in FrameTargets : Ask(t)

FrameSpec == Init /\ [][FrameNext]_vars

\* ask left the contents of the store as they were: the edge records with
\* their flags, their number, the buckets and every adjacency sequence that
\* existed; the sequences it appended are empty
ContentsKept ==
    /\ edges_' = edges_
    /\ bucket_' = bucket_
    /\ KeptIn(adj_, adj_')
    /\ \A i \in Len(adj_) + 1 .. Len(adj_') : adj_'[i] = <<>>

PlacesOf(adj, id) ==
    {p \in UNION {{<<u, j>> : j \in 1 .. Len(adj[u])} : u \in 1 .. Len(adj)} :
        adj[p[1]][p[2]] = id}

\* every id of the sequence of node u is an issued id of a record with source
\* u, the ids of a sequence increase strictly, every issued id is at exactly
\* one place, and the endpoints of every record are within the capacity
WellFormed(edges, adj) ==
    /\ \A u \in 1 .. Len(adj) : \A j \in 1 .. Len(adj[u]) :
          /\ adj[u][j] \in 0 .. edgeCount(edges) - 1
          /\ edges[adj[u][j] + 1].u = u - 1
          /\ \A k \in 1 .. Len(adj[u]) : j < k => adj[u][j] < adj[u][k]
    /\ \A i \in 1 .. Len(edges) :
          /\ Cardinality(PlacesOf(adj, i - 1)) = 1
          /\ edges[i].u \in 0 .. nodeCapacity(adj)
          /\ edges[i].v \in 0 .. nodeCapacity(adj)

\* C33: after every step the adjacency sequences are well formed; hence every
\* iteration of the for loop of recompute looks up an issued id, a record of
\* the node being expanded, and the label it reads and writes is inside
\* dist_ and bestMax_, as is the label every pop compares with.
C33_AdjacencyWellFormed ==
    [][ /\ WellFormed(edges_', adj_')
        /\ Relaxed =>
              LET id == outEdges(adj_, loopCur.v)[eidx] IN
              /\ id \in 0 .. edgeCount(edges_) - 1
              /\ LoopEdge.u = loopCur.v
              /\ LoopEdge.v + 1 \in 1 .. Len(dist_)
              /\ Len(bestMax_) = Len(dist_)
        /\ Popped => loopCur'.v + 1 \in 1 .. Len(dist_)
      ]_<<vars, loopvars>>

\* a recompute has scanned the two out-edges of a node, one of them removed,
\* on a store of three records whose sources are two nodes
C33_Witness ==
    /\ pc = "scan"
    /\ eidx = 3
    /\ Len(edges_) = 3
    /\ \E j \in 1 .. 2 : ~edges_[outEdges(adj_, loopCur.v)[j] + 1].alive
    /\ \E i \in 1 .. 3 : edges_[i].u # loopCur.v

====
